---- MODULE Spec2Model ----
(***************************************************************************)
(* The bulk-import job subsystem of the real-estate manager backend        *)
(* (internal/services/simplyrets.go): the JobManager registry, the         *)
(* processProperties supervisor goroutine with its per-batch workers, the  *)
(* buffered status channel, GetJobStatus readers, CancelJob and the        *)
(* deferred retention cleanup.                                             *)
(*                                                                         *)
(* One job object is followed through its whole life.  Goroutines are      *)
(* interleaved at the points where they touch shared state: the channel,   *)
(* the cancellation context, the registry map and the job's fields.  A     *)
(* step that runs entirely under an exclusive lock is one action.          *)
(***************************************************************************)
EXTENDS Integers, Sequences, FiniteSets, TLC

(* ---- program constants ---- *)
StatusCap == 100
BatchSize == 10
JobRetentionDuration == 5
DefaultLimit == 50
MaxLimit == 500

(* ---- bounds of the model ---- *)
MaxListings == 11
MaxAge == 6
\* most media URLs of the followed listing
MaxUrls == 3
\* most direct CleanupJob calls in the registry scenario
MaxCalls == 3
BulkListings == 971
MaxJobs == 2
MaxImages == 3
MaxOps == 4

JobID == "job-1"
Readers == {"r1", "r2"}
Ids == {"a", "b"}
NoTime == -1

\* listing counts the source returns: none, one, a full batch, a full and a short batch
ListingCounts == {0, 1, BatchSize, MaxListings}
\* the listing followed in the media scenario: the first one or the last one
FollowedListings == {1, MaxListings}

\* listing counts of the bulk scenario: one batch fewer, and BulkListings
BulkCounts == {BulkListings - BatchSize, BulkListings}

VARIABLES
  jobs,          \* JobManager.jobs: the set of ids that have an entry
  jmWriter,      \* holder of JobManager.mu across steps ("none" or "sup")
  statusChan,    \* buffered contents of ProcessingJob.Status
  chanClosed,    \* close(job.Status) has run
  LastStatus,    \* ProcessingJob.LastStatus (NilStatus for nil)
  CompletedAt,   \* ProcessingJob.CompletedAt is set
  completedAge,  \* time.Since(*job.CompletedAt), NoTime while unset
  sleepElapsed,  \* time slept by the cleanup goroutine, NoTime if none sleeps
  jobRLocks,     \* read holds on ProcessingJob.mu that span steps
  ctxDone,       \* the job context has been cancelled
  pc,            \* position of the processProperties goroutine
  status,        \* its local ProcessingStatus
  properties,    \* len(properties) after the fetch, -1 before
  i,             \* loop index of the batch loop
  wPending,      \* workers of the batch spawned and not yet begun
  wRunning,      \* workers inside processProperty
  resNil,        \* nil results delivered to the results channel
  resErr,        \* error results delivered to the results channel
  crashed,       \* an unrecovered panic ended the process
  rd,            \* GetJobStatus callers
  cpc,           \* position of the CancelJob caller; "true"/"false" once it returned that
  hist,          \* history variables, read only by the properties
  trk,           \* the worker of one listing followed through processProperty
  prop,          \* the models.SimplyRETSProperty handed to convertToProperty
  converted,     \* the *models.Property it returned, NoProperty before the call
  registry,      \* JobManager.jobs over several ids: id -> job object, 0 if none
  jobObj,        \* the ProcessingJob objects made so far, with their supervisors
  timers,        \* cleanup goroutines sleeping in MarkJobCompleted
  exited,        \* an unrecovered panic ended the process
  op,            \* the last call made directly on the JobManager
  resp,          \* the last request to StartProcessing and its response
  img,           \* one call of downloadImages: its tasks and the images directory
  jmMu,          \* JobManager.mu as a sync.RWMutex: writer, readers
  jobMu,         \* ProcessingJob.mu of the job the calls are about
  calls,         \* the goroutines calling the JobManager and the service
  reg,           \* what those calls read and write of the entry and the job
  opsMade        \* number of calls started

vars == <<jobs, jmWriter, statusChan, chanClosed, LastStatus, CompletedAt,
          completedAge, sleepElapsed, jobRLocks, ctxDone, pc, status,
          properties, i, wPending, wRunning, resNil, resErr, crashed, rd,
          cpc, hist, trk, prop, converted, registry, jobObj, timers, exited,
          op, resp, img, jmMu, jobMu, calls, reg, opsMade>>

jobVars == <<statusChan, chanClosed, LastStatus, CompletedAt, completedAge,
             sleepElapsed, jobRLocks>>
supVars == <<pc, status, properties, i>>
workVars == <<wPending, wRunning, resNil, resErr>>
convVars == <<prop, converted>>
mgrVars == <<registry, jobObj, timers, exited, op, resp>>
imgVars == <<img>>
lockVars == <<jmMu, jobMu, calls, reg, opsMade>>
auxVars == <<convVars, mgrVars, imgVars, lockVars>>

(* ---- models.ProcessingStatus ---- *)
MkStatus(st, tot, pr, fl, em, sa, ca) ==
  [state |-> st, total |-> tot, processed |-> pr, failed |-> fl,
   err |-> em, startedAt |-> sa, completedAt |-> ca]

NilStatus == MkStatus("nil", 0, 0, 0, FALSE, "zero", FALSE)
ZeroStatus == MkStatus("", 0, 0, 0, FALSE, "zero", FALSE)
InitialStatus == MkStatus("running", 0, 0, 0, FALSE, "supStart", FALSE)

\* variant: the basic status carries no start time
DefaultStatusNoStart == MkStatus("running", 0, 0, 0, FALSE, "zero", FALSE)

\* &models.ProcessingStatus{Status: "running", StartedAt: job.StartTime}
DefaultStatus == MkStatus("running", 0, 0, 0, FALSE, "jobStart", FALSE)

Terminal == {"completed", "failed", "cancelled"}

Min(a, b) == IF a < b THEN a ELSE b

IdleReader ==
  [pc |-> "idle", status |-> NilStatus, snap |-> NilStatus, via |-> "none",
   qHad |-> FALSE, term |-> FALSE]

InitHist ==
  [published |-> <<>>, cancelSeenAt |-> -1, spawned |-> 0,
   cancelEarly |-> FALSE, lastBatchStarted |-> FALSE, finalSnap |-> NilStatus,
   removedBy |-> "none", removedAge |-> NoTime,
   firstPub |-> NilStatus, markArg |-> NilStatus, closes |-> 0,
   cleanupCalls |-> 0, cancelBatch |-> 0, okCreates |-> 0, workerErrs |-> 0,
   batches |-> <<>>]

\* the worker of listing number t (1-based) of the fetched list, not yet spawned
Listing(t) ==
  [idx |-> t, pc |-> "none", urls |-> 0, mPending |-> 0, mRunning |-> 0,
   photos |-> 0, errors |-> 0, creates |-> 0, result |-> "none",
   ctxErrs |-> 0, starts |-> 0]

\* no listing is followed: every worker is one of the counted ones
NoListing == Listing(0)

InitJob ==
  /\ jobs = {}
  /\ jmWriter = "none"
  /\ statusChan = <<>>
  /\ chanClosed = FALSE
  /\ LastStatus = NilStatus
  /\ CompletedAt = FALSE
  /\ completedAge = NoTime
  /\ sleepElapsed = NoTime
  /\ jobRLocks = 0
  /\ ctxDone = FALSE
  /\ pc = "idle"
  /\ status = NilStatus
  /\ properties = -1
  /\ i = 0
  /\ wPending = 0
  /\ wRunning = 0
  /\ resNil = 0
  /\ resErr = 0
  /\ crashed = FALSE
  /\ rd = [r \in Readers |-> IdleReader]
  /\ cpc = "idle"
  /\ hist = InitHist

(* ---- Go's int and int32 ---- *)
\* a 64-bit int as its four 16-bit words, least significant first
Word == 2^16
Int64(w0, w1, w2, w3) == <<w0, w1, w2, w3>>
IsZero(x) == x = Int64(0, 0, 0, 0)
\* the conversion int32(i): the low 32 bits, read as two's complement
Int32Of(x) ==
  IF x[2] >= Word \div 2 THEN (x[2] - Word) * Word + x[1]
  ELSE x[2] * Word + x[1]
\* the value of x lies in -2^31 .. 2^31 - 1
FitsInt32(x) ==
  \/ x[3] = 0 /\ x[4] = 0 /\ x[2] < Word \div 2
  \/ x[3] = Word - 1 /\ x[4] = Word - 1 /\ x[2] >= Word \div 2

(* ---- nullString / nullInt32 / convertToProperty ---- *)
nullString(str) ==
  IF str = "" THEN [Valid |-> FALSE, String |-> ""]
  ELSE [Valid |-> TRUE, String |-> str]

nullInt32(x) ==
  IF IsZero(x) THEN [Valid |-> FALSE, Int32 |-> 0]
  ELSE [Valid |-> TRUE, Int32 |-> Int32Of(x)]

\* FlexibleString.String()
FlexString(fs) == fs

\* the fields of models.SimplyRETSProperty that the optional fields are made of
Strings == {"", "x"}
Ints ==
  { Int64(0, 0, 0, 0),                                   \* 0
    Int64(3, 0, 0, 0),                                   \* 3
    Int64(Word - 1, Word - 1, Word - 1, Word - 1),       \* -1
    Int64(Word - 1, Word \div 2 - 1, 0, 0),              \* 2^31 - 1
    Int64(0, Word \div 2, 0, 0),                         \* 2^31
    Int64(0, 0, 1, 0) }                                  \* 2^32
SmallInts == {Int64(0, 0, 0, 0), Int64(3, 0, 0, 0)}

SimplyRETSProperty(rem, lid, mls, typ, bed, bath, area, lot, year) ==
  [Remarks |-> rem, ListingID |-> lid, MLSNumber |-> mls, PropertyType |-> typ,
   Bedrooms |-> bed, Bathrooms |-> bath, Area |-> area, LotSize |-> lot,
   YearBuilt |-> year]

NoInput ==
  SimplyRETSProperty("", "", "", "", Int64(0, 0, 0, 0), Int64(0, 0, 0, 0),
                     Int64(0, 0, 0, 0), "", Int64(0, 0, 0, 0))

NoProperty == [made |-> FALSE]

convertToProperty(sp) ==
  [made |-> TRUE,
   Description |-> nullString(sp.Remarks),
   ExternalID |-> nullString(sp.ListingID),
   MLSNumber |-> nullString(FlexString(sp.MLSNumber)),
   PropertyType |-> nullString(sp.PropertyType),
   Bedrooms |-> nullInt32(sp.Bedrooms),
   Bathrooms |-> nullInt32(sp.Bathrooms),
   SquareFeet |-> nullInt32(sp.Area),
   LotSize |-> nullString(sp.LotSize),
   YearBuilt |-> nullInt32(sp.YearBuilt)]

InitConv == prop = NoInput /\ converted = NoProperty

\* the call of convertToProperty in processProperty
Convert ==
  /\ converted = NoProperty
  /\ converted' = convertToProperty(prop)
  /\ UNCHANGED <<jobs, jmWriter, jobVars, ctxDone, supVars, workVars, crashed,
                 rd, cpc, hist, trk, prop, mgrVars, imgVars, lockVars>>

(* ---- downloadImages and downloadImage: the files of one call ---- *)
\* Strings are sequences of characters, so that fmt.Sprintf and
\* strings.Contains are computed on them.
RECURSIVE Itoa(_)
\* the verb %d of fmt.Sprintf on an index that is not negative
Itoa(n) ==
  LET digit == <<"0", "1", "2", "3", "4", "5", "6", "7", "8", "9">>[(n % 10) + 1]
  IN  IF n < 10 THEN <<digit>> ELSE Itoa(n \div 10) \o <<digit>>

\* strings.Contains
Contains(str, sub) ==
  \E k \in 0..(Len(str) - Len(sub)) : SubSeq(str, k + 1, k + Len(sub)) = sub

Png == <<"p", "n", "g">>
DotPng == <<".">> \o Png
DotJpg == <<".", "j", "p", "g">>
ImagesPrefix == <<"/", "i", "m", "a", "g", "e", "s", "/">>

\* values of the Content-Type header of the response
ContentTypes ==
  {<<"i", "m", "a", "g", "e", "/", "p", "n", "g">>,
   <<"i", "m", "a", "g", "e", "/", "j", "p", "e", "g">>,
   <<"i", "m", "a", "g", "e", "/", "x", "-", "p", "n", "g", ";", "q">>,
   <<"i", "m", "a", "g", "e", "/", "P", "N", "G">>}

\* values of SimplyRETSProperty.ListingID
ListingIDs == {<<"p", "7">>, <<"p", "7", "_", "1">>}

Ext(ctype) == IF Contains(ctype, Png) THEN DotPng ELSE DotJpg
Filename(propertyID, index, ext) == propertyID \o <<"_">> \o Itoa(index) \o ext

ImageIndexes == 0..(MaxImages - 1)
NoTask == [pc |-> "none", ctype |-> <<>>, file |-> <<>>, path |-> <<>>]
NoImages ==
  [id |-> <<>>, n |-> 0, task |-> [k \in ImageIndexes |-> NoTask],
   disk |-> {}, pc |-> "idle"]

InitImg == img = NoImages

ImgFrame ==
  UNCHANGED <<jobs, jmWriter, jobVars, ctxDone, supVars, workVars, crashed, rd,
              cpc, hist, trk, convVars, mgrVars, lockVars>>

\* downloadImages is called with n URLs: one goroutine per URL, or an
\* immediate return when there is none
DownloadImagesCall(id, n) ==
  /\ img.pc = "idle"
  /\ img' = [img EXCEPT
               !.id = id, !.n = n,
               !.task = [k \in ImageIndexes |->
                           IF k < n THEN [NoTask EXCEPT !.pc = "request"]
                                    ELSE NoTask],
               !.pc = IF n = 0 THEN "returned" ELSE "wait"]
  /\ ImgFrame

\* variant: the file name is made of the listing id and the extension only
ImageResponseUnnumbered(k, ok, ctype) ==
  /\ img.pc = "wait"
  /\ img.task[k].pc = "request"
  /\ img' = IF ok
              THEN [img EXCEPT
                      !.task[k].pc = "create",
                      !.task[k].ctype = ctype,
                      !.task[k].file = img.id \o <<"_">> \o Ext(ctype)]
              ELSE [img EXCEPT !.task[k].pc = "failed"]
  /\ ImgFrame

\* task k: the context is done, the request fails or its status is not 200
\* (~ok); else the response arrives and the file name is made
ImageResponse(k, ok, ctype) ==
  /\ img.pc = "wait"
  /\ img.task[k].pc = "request"
  /\ img' = IF ok
              THEN [img EXCEPT
                      !.task[k].pc = "create",
                      !.task[k].ctype = ctype,
                      !.task[k].file = Filename(img.id, k, Ext(ctype))]
              ELSE [img EXCEPT !.task[k].pc = "failed"]
  /\ ImgFrame

\* task k: os.Create of the file in the images directory
ImageCreate(k, ok) ==
  /\ img.pc = "wait"
  /\ img.task[k].pc = "create"
  /\ img' = IF ok
              THEN [img EXCEPT !.task[k].pc = "copy",
                               !.disk = @ \cup {img.task[k].file}]
              ELSE [img EXCEPT !.task[k].pc = "failed"]
  /\ ImgFrame

\* task k: io.Copy into the file, then the relative path is returned and
\* the photo sent
ImageCopy(k, ok) ==
  /\ img.pc = "wait"
  /\ img.task[k].pc = "copy"
  /\ img' = IF ok
              THEN [img EXCEPT !.task[k].pc = "done",
                               !.task[k].path = ImagesPrefix \o img.task[k].file]
              ELSE [img EXCEPT !.task[k].pc = "failed"]
  /\ ImgFrame

\* wg.Wait returns and the photos are collected
ImagesJoin ==
  /\ img.pc = "wait"
  /\ \A k \in ImageIndexes : img.task[k].pc \in {"none", "done", "failed"}
  /\ img' = [img EXCEPT !.pc = "returned"]
  /\ ImgFrame

(* ---- the two locks: JobManager.mu and ProcessingJob.mu ---- *)
\* A sync.RWMutex: Lock first takes the writers' mutex and turns new readers
\* away (w is the goroutine that did), then waits for the readers inside to
\* leave (held); RLock waits while a writer has announced itself.
Procs == {"g1", "g2", "g3"}
Ops == {"AddJob", "GetJob", "RemoveJob", "MarkJobCompleted", "CleanupJob",
        "GetJobStatus", "CancelJob"}
FreeMutex == [w |-> "none", readers |-> {}, held |-> FALSE]
NoOp == [op |-> "", pc |-> "idle"]

InitLocks ==
  /\ jmMu = FreeMutex
  /\ jobMu = FreeMutex
  /\ calls = [g \in Procs |-> NoOp]
  /\ reg = [exists |-> FALSE, last |-> FALSE, done |-> FALSE]
  /\ opsMade = 0

RLock(mu, g) == [mu EXCEPT !.readers = @ \cup {g}]
RUnlock(mu, g) == [mu EXCEPT !.readers = @ \ {g}]
LockBegin(mu, g) == [mu EXCEPT !.w = g]
LockEnter(mu) == [mu EXCEPT !.held = TRUE]
Unlock(mu) == [mu EXCEPT !.w = "none", !.held = FALSE]

LockFrame ==
  UNCHANGED <<jobs, jmWriter, jobVars, ctxDone, supVars, workVars, crashed, rd,
              cpc, hist, trk, convVars, mgrVars, imgVars>>

\* a goroutine calls one of the operations
LkCall(g, o) ==
  /\ calls[g].pc = "idle"
  /\ opsMade < MaxOps
  /\ calls' = [calls EXCEPT
                 ![g] = [op |-> o,
                         pc |-> IF o \in {"GetJob", "GetJobStatus", "CancelJob"}
                                  THEN "jmRLock" ELSE "jmLock"]]
  /\ opsMade' = opsMade + 1
  /\ UNCHANGED <<jmMu, jobMu, reg>>
  /\ LockFrame

\* jm.mu.Lock()
LkJmLockBegin(g) ==
  /\ calls[g].pc \in {"jmLock"}
  /\ jmMu.w = "none"
  /\ jmMu' = LockBegin(jmMu, g)
  /\ calls' = [calls EXCEPT ![g].pc = "jmLockWait"]
  /\ UNCHANGED <<jobMu, reg, opsMade>>
  /\ LockFrame

LkJmLockEnter(g) ==
  /\ calls[g].pc \in {"jmLockWait"}
  /\ jmMu.readers = {}
  /\ jmMu' = LockEnter(jmMu)
  /\ calls' = [calls EXCEPT ![g].pc = "jmHeld"]
  /\ UNCHANGED <<jobMu, reg, opsMade>>
  /\ LockFrame

\* AddJob: jm.jobs[id] = job, and the deferred Unlock
LkAddJob(g) ==
  /\ calls[g].pc \in {"jmHeld"} /\ calls[g].op = "AddJob"
  /\ reg' = [reg EXCEPT !.exists = TRUE]
  /\ jmMu' = Unlock(jmMu)
  /\ calls' = [calls EXCEPT ![g] = NoOp]
  /\ UNCHANGED <<jobMu, opsMade>>
  /\ LockFrame

\* RemoveJob, also as the last call of CancelJob: close and delete if the
\* entry exists, and the deferred Unlock
LkRemoveJob(g) ==
  /\ calls[g].pc \in {"jmHeld"} /\ calls[g].op \in {"RemoveJob", "CancelJob"}
  /\ reg' = [reg EXCEPT !.exists = FALSE]
  /\ jmMu' = Unlock(jmMu)
  /\ calls' = [calls EXCEPT ![g] = NoOp]
  /\ UNCHANGED <<jobMu, opsMade>>
  /\ LockFrame

\* MarkJobCompleted and CleanupJob look the entry up under jm.mu
LkLookup(g) ==
  /\ calls[g].pc \in {"jmHeld"} /\ calls[g].op \in {"MarkJobCompleted", "CleanupJob"}
  /\ IF reg.exists
       THEN /\ calls' = [calls EXCEPT
                         ![g].pc = IF calls[g].op = "CleanupJob" THEN "jobRLock"
                                   ELSE "jobLock"]
            /\ UNCHANGED jmMu
       ELSE /\ jmMu' = Unlock(jmMu)
            /\ calls' = [calls EXCEPT ![g] = NoOp]
  /\ UNCHANGED <<jobMu, reg, opsMade>>
  /\ LockFrame

\* job.mu.Lock()
LkJobLockBegin(g) ==
  /\ calls[g].pc \in {"jobLock"}
  /\ jobMu.w = "none"
  /\ jobMu' = LockBegin(jobMu, g)
  /\ calls' = [calls EXCEPT ![g].pc = "jobLockWait"]
  /\ UNCHANGED <<jmMu, reg, opsMade>>
  /\ LockFrame

LkJobLockEnter(g) ==
  /\ calls[g].pc \in {"jobLockWait"}
  /\ jobMu.readers = {}
  /\ jobMu' = LockEnter(jobMu)
  /\ calls' = [calls EXCEPT ![g].pc = "jobHeld"]
  /\ UNCHANGED <<jmMu, reg, opsMade>>
  /\ LockFrame

\* MarkJobCompleted: LastStatus and CompletedAt stored, job.mu.Unlock()
LkMarkStore(g) ==
  /\ calls[g].pc \in {"jobHeld"} /\ calls[g].op = "MarkJobCompleted"
  /\ reg' = [reg EXCEPT !.last = TRUE, !.done = TRUE]
  /\ jobMu' = Unlock(jobMu)
  /\ calls' = [calls EXCEPT ![g].pc = "jmUnlock"]
  /\ UNCHANGED <<jmMu, opsMade>>
  /\ LockFrame

\* MarkJobCompleted: the cleanup goroutine is started, then the deferred Unlock
LkMarkReturn(g) ==
  /\ calls[g].pc \in {"jmUnlock"} /\ calls[g].op = "MarkJobCompleted"
  /\ jmMu' = Unlock(jmMu)
  /\ calls' = [calls EXCEPT ![g] = NoOp]
  /\ UNCHANGED <<jobMu, reg, opsMade>>
  /\ LockFrame

\* job.mu.RLock(), in CleanupJob and in GetJobStatus (first and second time)
LkJobRLock(g) ==
  /\ calls[g].pc \in {"jobRLock", "jobRLockAgain"}
  /\ jobMu.w = "none"
  /\ jobMu' = RLock(jobMu, g)
  /\ calls' = [calls EXCEPT
                 ![g].pc = IF calls[g].pc = "jobRLock" THEN "jobRHeld"
                           ELSE "jobRHeldAgain"]
  /\ UNCHANGED <<jmMu, reg, opsMade>>
  /\ LockFrame

\* CleanupJob: CompletedAt read, job.mu.RUnlock()
LkCleanupRead(g) ==
  /\ calls[g].pc \in {"jobRHeld"} /\ calls[g].op = "CleanupJob"
  /\ jobMu' = RUnlock(jobMu, g)
  /\ calls' = [calls EXCEPT ![g].pc = "jmUnlock"]
  /\ UNCHANGED <<jmMu, reg, opsMade>>
  /\ LockFrame

\* CleanupJob: close and delete if the retention is over, the deferred Unlock
LkCleanupReturn(g, expired) ==
  /\ calls[g].pc \in {"jmUnlock"} /\ calls[g].op = "CleanupJob"
  /\ reg' = [reg EXCEPT !.exists = ~(reg.done /\ expired)]
  /\ jmMu' = Unlock(jmMu)
  /\ calls' = [calls EXCEPT ![g] = NoOp]
  /\ UNCHANGED <<jobMu, opsMade>>
  /\ LockFrame

\* GetJob: jm.mu.RLock()
LkJmRLock(g) ==
  /\ calls[g].pc \in {"jmRLock"}
  /\ jmMu.w = "none"
  /\ jmMu' = RLock(jmMu, g)
  /\ calls' = [calls EXCEPT ![g].pc = "jmRHeld"]
  /\ UNCHANGED <<jobMu, reg, opsMade>>
  /\ LockFrame

\* GetJob returns through its deferred RUnlock; GetJobStatus goes on to
\* job.mu.RLock() and CancelJob to job.Cancel() and RemoveJob if it found
\* the job
LkGetJob(g) ==
  /\ calls[g].pc \in {"jmRHeld"}
  /\ jmMu' = RUnlock(jmMu, g)
  /\ IF reg.exists /\ calls[g].op = "GetJobStatus" THEN calls' = [calls EXCEPT ![g].pc = "jobRLock"]
     ELSE IF reg.exists /\ calls[g].op = "CancelJob" THEN calls' = [calls EXCEPT ![g].pc = "jmLock"]
     ELSE calls' = [calls EXCEPT ![g] = NoOp]
  /\ UNCHANGED <<jobMu, reg, opsMade>>
  /\ LockFrame

\* variant: GetJobStatus keeps its read hold while it asks for the write lock
LkStatusReadKeepingRLock(g, got) ==
  /\ calls[g].pc \in {"jobRHeld"} /\ calls[g].op = "GetJobStatus"
  /\ IF ~reg.last /\ got
       THEN /\ UNCHANGED jobMu
            /\ calls' = [calls EXCEPT ![g].pc = "jobLock"]
       ELSE /\ jobMu' = RUnlock(jobMu, g)
            /\ calls' = [calls EXCEPT ![g] = NoOp]
  /\ UNCHANGED <<jmMu, reg, opsMade>>
  /\ LockFrame

\* GetJobStatus under the read lock: LastStatus is set, or a snapshot is
\* received (got) and the read lock given up for the write lock, or the
\* default snapshot is returned
LkStatusRead(g, got) ==
  /\ calls[g].pc \in {"jobRHeld"} /\ calls[g].op = "GetJobStatus"
  /\ jobMu' = RUnlock(jobMu, g)
  /\ IF ~reg.last /\ got THEN calls' = [calls EXCEPT ![g].pc = "jobLock"] ELSE calls' = [calls EXCEPT ![g] = NoOp]
  /\ UNCHANGED <<jmMu, reg, opsMade>>
  /\ LockFrame

\* GetJobStatus: job.LastStatus = &status, job.mu.Unlock()
LkStatusStore(g) ==
  /\ calls[g].pc \in {"jobHeld"} /\ calls[g].op = "GetJobStatus"
  /\ reg' = [reg EXCEPT !.last = TRUE]
  /\ jobMu' = Unlock(jobMu)
  /\ calls' = [calls EXCEPT ![g].pc = "jobRLockAgain"]
  /\ UNCHANGED <<jmMu, opsMade>>
  /\ LockFrame

\* GetJobStatus: the put-back, which returns or panics, and either way the
\* deferred RUnlock
LkStatusReturn(g) ==
  /\ calls[g].pc \in {"jobRHeldAgain"}
  /\ jobMu' = RUnlock(jobMu, g)
  /\ calls' = [calls EXCEPT ![g] = NoOp]
  /\ UNCHANGED <<jmMu, reg, opsMade>>
  /\ LockFrame

\* the steps of a call once it is made
LkStep(g) ==
  \/ LkJmLockBegin(g)
  \/ LkJmLockEnter(g)
  \/ LkAddJob(g)
  \/ LkRemoveJob(g)
  \/ LkLookup(g)
  \/ LkJobLockBegin(g)
  \/ LkJobLockEnter(g)
  \/ LkMarkStore(g)
  \/ LkMarkReturn(g)
  \/ LkJobRLock(g)
  \/ LkCleanupRead(g)
  \/ \E expired \in BOOLEAN : LkCleanupReturn(g, expired)
  \/ LkJmRLock(g)
  \/ LkGetJob(g)
  \/ \E got \in BOOLEAN : LkStatusRead(g, got)
  \/ LkStatusStore(g)
  \/ LkStatusReturn(g)

\* the lock a waiting call waits for, and who keeps it from it
Waiting(g) == calls[g].pc \in {"jmLock", "jmLockWait", "jmRLock", "jobLock",
                     "jobLockWait", "jobRLock", "jobRLockAgain"}
Blockers(g) ==
  IF calls[g].pc \in {"jmLock", "jmRLock"} THEN {jmMu.w} \ {"none"}
  ELSE IF calls[g].pc \in {"jmLockWait"} THEN jmMu.readers
  ELSE IF calls[g].pc \in {"jobLock", "jobRLock", "jobRLockAgain"} THEN {jobMu.w} \ {"none"}
  ELSE IF calls[g].pc \in {"jobLockWait"} THEN jobMu.readers
  ELSE {}

(* ---- channel operations on job.Status ---- *)
\* a send can proceed: there is room, or the channel is closed (and it panics)
SendReady == chanClosed \/ Len(statusChan) < StatusCap

\* the process dies of a send on a closed channel in the supervisor goroutine
SupPanic ==
  /\ crashed' = TRUE
  /\ pc' = "panicked"
  /\ UNCHANGED <<jobs, jmWriter, jobVars, ctxDone, status, properties, i,
                 workVars, rd, cpc, hist, trk, auxVars>>

\* statusChan <- s, taken when SendReady
SupSend(s, next) ==
  /\ ~chanClosed
  /\ Len(statusChan) < StatusCap
  /\ statusChan' = Append(statusChan, s)
  /\ pc' = next
  /\ hist' = [hist EXCEPT !.published = Append(@, s.state),
                          !.firstPub = IF @ = NilStatus THEN s ELSE @]

(* ---- StartPropertyProcessing ---- *)
\* variant: the goroutine is started but the job is not added to the manager
StartWithoutAddJob ==
  /\ ~crashed
  /\ pc = "idle"
  /\ jmWriter = "none"
  /\ status' = InitialStatus
  /\ pc' = "init_send"
  /\ UNCHANGED <<jobs, jmWriter, jobVars, ctxDone, properties, i, workVars,
                 crashed, rd, cpc, hist, trk, auxVars>>

StartPropertyProcessing ==
  /\ ~crashed
  /\ pc = "idle"
  /\ jmWriter = "none"
  /\ jobs' = jobs \cup {JobID}
  /\ status' = InitialStatus
  /\ pc' = "init_send"
  /\ UNCHANGED <<jmWriter, jobVars, ctxDone, properties, i, workVars, crashed,
                 rd, cpc, hist, trk, auxVars>>

\* StartPropertyProcessing given a parent context that is already cancelled:
\* context.WithCancel(ctx) is then cancelled from the start
StartWithCancelledParent ==
  /\ ~crashed
  /\ pc = "idle"
  /\ jmWriter = "none"
  /\ jobs' = jobs \cup {JobID}
  /\ ctxDone' = TRUE
  /\ status' = InitialStatus
  /\ pc' = "init_send"
  /\ UNCHANGED <<jmWriter, jobVars, properties, i, workVars, crashed, rd, cpc,
                 hist, trk, auxVars>>

(* ---- processProperties ---- *)
\* select { case statusChan <- status: ; case <-ctx.Done(): return }
SendInitial ==
  /\ ~crashed
  /\ pc = "init_send"
  /\ \/ /\ chanClosed
        /\ SupPanic
     \/ /\ SupSend(status, "fetch")
        /\ UNCHANGED <<jobs, jmWriter, chanClosed, LastStatus, CompletedAt,
                       completedAge, sleepElapsed, jobRLocks, ctxDone, status,
                       properties, i, workVars, crashed, rd, cpc, trk,
                       auxVars>>
     \/ /\ ctxDone
        /\ pc' = "done"
        /\ UNCHANGED <<jobs, jmWriter, jobVars, ctxDone, status, properties, i,
                       workVars, crashed, rd, cpc, hist, trk, auxVars>>

\* fetchProperties returned an error; a request on a cancelled context always does
FetchErr ==
  /\ ~crashed
  /\ pc = "fetch"
  /\ status' = [status EXCEPT !.state = "failed", !.err = TRUE,
                              !.completedAt = TRUE]
  /\ pc' = "term_send"
  /\ UNCHANGED <<jobs, jmWriter, jobVars, ctxDone, properties, i, workVars,
                 crashed, rd, cpc, hist, trk, auxVars>>

\* fetchProperties returned n listings
FetchOk(n) ==
  /\ ~crashed
  /\ pc = "fetch"
  /\ ~ctxDone
  /\ properties' = n
  /\ status' = [status EXCEPT !.total = n]
  /\ pc' = "total_send"
  /\ i' = 0
  /\ UNCHANGED <<jobs, jmWriter, jobVars, ctxDone, workVars, crashed, rd, cpc,
                 hist, trk, auxVars>>

\* statusChan <- status (blocking), lines 1083, 1090, 1103, 1126
BlockingSend(at, next) ==
  /\ ~crashed
  /\ pc = at
  /\ \/ /\ chanClosed
        /\ SupPanic
     \/ /\ SupSend(status, next)
        /\ UNCHANGED <<jobs, jmWriter, chanClosed, LastStatus, CompletedAt,
                       completedAge, sleepElapsed, jobRLocks, ctxDone, status,
                       properties, i, workVars, crashed, rd, cpc, trk,
                       auxVars>>

SendTotal == pc = "total_send" /\ BlockingSend("total_send", "loop")

\* variant: the return after the terminal publish is missing
SendTerminalNoReturn == pc = "term_send" /\ BlockingSend("term_send", "loop")

SendTerminal == pc = "term_send" /\ BlockingSend("term_send", "term_mark")

\* variant: the cancellation case only leaves the select, the batch still starts
BatchCancelledNoStop ==
  /\ status' = [status EXCEPT !.state = "cancelled", !.completedAt = TRUE]
  /\ hist' = [hist EXCEPT !.cancelSeenAt = i]
  /\ wPending' = Min(BatchSize, properties - i)
  /\ pc' = "batch_wait"
  /\ UNCHANGED <<wRunning, resNil, resErr, trk>>

\* the cancellation check at the head of the batch loop found ctx.Done()
BatchCancelled ==
  /\ status' = [status EXCEPT !.state = "cancelled", !.completedAt = TRUE]
  /\ pc' = "term_send"
  /\ hist' = [hist EXCEPT !.cancelSeenAt = i]
  /\ UNCHANGED <<workVars, trk>>

\* the followed listing is one of properties[i:end]
InBatch == i < trk.idx /\ trk.idx <= i + Min(BatchSize, properties - i)

\* variant: the rest of the list is handed to processBatch without chunking
BatchSpawnUnchunked ==
  /\ wPending' = properties - i
  /\ pc' = "batch_wait"
  /\ hist' = [hist EXCEPT !.spawned = @ + (properties - i),
                          !.lastBatchStarted = TRUE,
                          !.batches = Append(@, <<i, properties - i>>)]
  /\ trk' = IF i < trk.idx /\ trk.idx <= properties
              THEN [trk EXCEPT !.pc = "spawned", !.starts = @ + 1]
              ELSE trk
  /\ UNCHANGED <<status, wRunning, resNil, resErr>>

\* processBatch spawns one goroutine per listing of properties[i:end]
BatchSpawn ==
  /\ wPending' = Min(BatchSize, properties - i)
  /\ pc' = "batch_wait"
  /\ hist' = [hist EXCEPT !.spawned = @ + Min(BatchSize, properties - i),
                          !.lastBatchStarted = (i + BatchSize >= properties),
                          !.batches =
                            Append(@, <<i, Min(BatchSize, properties - i)>>)]
  /\ trk' = IF InBatch
              THEN [trk EXCEPT !.pc = "spawned", !.starts = @ + 1]
              ELSE trk
  /\ UNCHANGED <<status, wRunning, resNil, resErr>>

\* one pass through the head of `for i := 0; i < len(properties); i += batchSize`
BatchLoop ==
  /\ ~crashed
  /\ pc = "loop"
  /\ IF i < properties
       THEN IF ctxDone THEN BatchCancelled ELSE BatchSpawn
       ELSE /\ status' = [status EXCEPT !.state = "completed",
                                        !.completedAt = TRUE]
            /\ pc' = "term_send"
            /\ UNCHANGED <<workVars, hist, trk>>
  /\ UNCHANGED <<jobs, jmWriter, jobVars, ctxDone, properties, i, crashed, rd,
                 cpc, auxVars>>

\* the followed worker counts among the spawned ones until it begins
TrkPending == IF trk.pc = "spawned" THEN 1 ELSE 0

\* the followed worker counts among the running ones while in processProperty
TrkRunning == IF trk.pc \in {"download", "media_wait", "create"} THEN 1 ELSE 0

\* variant: a worker that finds the context cancelled returns without a result
WorkerBeginSilent ==
  /\ ~crashed
  /\ wPending > TrkPending
  /\ wPending' = wPending - 1
  /\ wRunning' = IF ctxDone THEN wRunning ELSE wRunning + 1
  /\ UNCHANGED <<jobs, jmWriter, jobVars, ctxDone, supVars, resNil, resErr,
                 crashed, rd, cpc, hist, trk, auxVars>>

\* a worker goroutine starts: it reports ctx.Err() at once if cancelled
WorkerBegin ==
  /\ ~crashed
  /\ wPending > TrkPending
  /\ wPending' = wPending - 1
  /\ IF ctxDone
       THEN /\ resErr' = resErr + 1
            /\ hist' = [hist EXCEPT !.workerErrs = @ + 1]
            /\ UNCHANGED wRunning
       ELSE /\ wRunning' = wRunning + 1
            /\ UNCHANGED <<resErr, hist>>
  /\ UNCHANGED <<jobs, jmWriter, jobVars, ctxDone, supVars, resNil, crashed,
                 rd, cpc, trk, auxVars>>

\* variant: a worker sends its result twice
WorkerFinishTwice(ok) ==
  /\ ~crashed
  /\ wRunning > TrkRunning
  /\ wRunning' = wRunning - 1
  /\ resNil' = IF ok THEN resNil + 2 ELSE resNil
  /\ resErr' = IF ok THEN resErr ELSE resErr + 2
  /\ hist' = IF ok THEN [hist EXCEPT !.okCreates = @ + 1]
                   ELSE [hist EXCEPT !.workerErrs = @ + 1]
  /\ UNCHANGED <<jobs, jmWriter, jobVars, ctxDone, supVars, wPending, crashed,
                 rd, cpc, trk, auxVars>>

\* processProperty returned: results <- err
WorkerFinish(ok) ==
  /\ ~crashed
  /\ wRunning > TrkRunning
  /\ wRunning' = wRunning - 1
  /\ resNil' = IF ok THEN resNil + 1 ELSE resNil
  /\ resErr' = IF ok THEN resErr ELSE resErr + 1
  /\ hist' = IF ok THEN [hist EXCEPT !.okCreates = @ + 1]
                   ELSE [hist EXCEPT !.workerErrs = @ + 1]
  /\ UNCHANGED <<jobs, jmWriter, jobVars, ctxDone, supVars, wPending, crashed,
                 rd, cpc, trk, auxVars>>

\* variant: a batch with a failed listing fails the job
BatchJoinAbortOnError ==
  /\ ~crashed
  /\ pc = "batch_wait"
  /\ wPending = 0
  /\ wRunning = 0
  /\ status' = IF resErr > 0
                 THEN [status EXCEPT !.processed = @ + resNil,
                                     !.failed = @ + resErr,
                                     !.state = "failed", !.completedAt = TRUE]
                 ELSE [status EXCEPT !.processed = @ + resNil,
                                     !.failed = @ + resErr]
  /\ resNil' = 0
  /\ resErr' = 0
  /\ pc' = IF resErr > 0 THEN "term_send" ELSE "batch_send"
  /\ UNCHANGED <<jobs, jmWriter, jobVars, ctxDone, properties, i, wPending,
                 wRunning, crashed, rd, cpc, hist, trk, auxVars>>

\* variant: the results are collected without wg.Wait()
BatchJoinNoWait ==
  /\ ~crashed
  /\ pc = "batch_wait"
  /\ status' = [status EXCEPT !.processed = @ + resNil, !.failed = @ + resErr]
  /\ resNil' = 0
  /\ resErr' = 0
  /\ pc' = "batch_send"
  /\ UNCHANGED <<jobs, jmWriter, jobVars, ctxDone, properties, i, wPending,
                 wRunning, crashed, rd, cpc, hist, trk, auxVars>>

\* variant: every result counts as processed, errors count as failed too
BatchJoinDoubleCount ==
  /\ ~crashed
  /\ pc = "batch_wait"
  /\ wPending = 0
  /\ wRunning = 0
  /\ status' = [status EXCEPT !.processed = @ + resNil + resErr,
                              !.failed = @ + resErr]
  /\ resNil' = 0
  /\ resErr' = 0
  /\ pc' = "batch_send"
  /\ UNCHANGED <<jobs, jmWriter, jobVars, ctxDone, properties, i, wPending,
                 wRunning, crashed, rd, cpc, hist, trk, auxVars>>

\* wg.Wait(); close(results); for err := range results { count }
BatchJoin ==
  /\ ~crashed
  /\ pc = "batch_wait"
  /\ wPending = 0
  /\ wRunning = 0
  /\ status' = [status EXCEPT !.processed = @ + resNil, !.failed = @ + resErr]
  /\ resNil' = 0
  /\ resErr' = 0
  /\ pc' = "batch_send"
  /\ UNCHANGED <<jobs, jmWriter, jobVars, ctxDone, properties, i, wPending,
                 wRunning, crashed, rd, cpc, hist, trk, auxVars>>

\* select { case statusChan <- *status: ; case <-ctx.Done(): return }, then i += batchSize
SendBatch ==
  /\ ~crashed
  /\ pc = "batch_send"
  /\ \/ /\ chanClosed
        /\ SupPanic
     \/ /\ SupSend(status, "loop")
        /\ i' = i + BatchSize
        /\ UNCHANGED <<jobs, jmWriter, chanClosed, LastStatus, CompletedAt,
                       completedAge, sleepElapsed, jobRLocks, ctxDone, status,
                       properties, workVars, crashed, rd, cpc, trk, auxVars>>
     \/ /\ ctxDone
        /\ pc' = "loop"
        /\ i' = i + BatchSize
        /\ UNCHANGED <<jobs, jmWriter, jobVars, ctxDone, status, properties,
                       workVars, crashed, rd, cpc, hist, trk, auxVars>>

(* ---- processProperty / downloadImages for the followed listing ---- *)
\* results <- err of the followed worker; kind names the return statement
ListingResult(kind) ==
  /\ wRunning' = wRunning - 1
  /\ resNil' = IF kind = "nil" THEN resNil + 1 ELSE resNil
  /\ resErr' = IF kind = "nil" THEN resErr ELSE resErr + 1
  /\ hist' = IF kind = "nil" THEN [hist EXCEPT !.okCreates = @ + 1]
                             ELSE [hist EXCEPT !.workerErrs = @ + 1]

\* the followed worker goroutine starts: select { case <-ctx.Done(): results <- ctx.Err() }
ListingBegin ==
  /\ ~crashed
  /\ trk.pc = "spawned"
  /\ wPending' = wPending - 1
  /\ IF ctxDone
       THEN /\ resErr' = resErr + 1
            /\ hist' = [hist EXCEPT !.workerErrs = @ + 1]
            /\ trk' = [trk EXCEPT !.pc = "done", !.result = "ctx"]
            /\ UNCHANGED wRunning
       ELSE /\ wRunning' = wRunning + 1
            /\ trk' = [trk EXCEPT !.pc = "download"]
            /\ UNCHANGED <<resErr, hist>>
  /\ UNCHANGED <<jobs, jmWriter, jobVars, ctxDone, supVars, resNil, crashed,
                 rd, cpc, auxVars>>

\* downloadImages with u URLs: none returns at once, else one goroutine per URL
DownloadImages(u) ==
  /\ ~crashed
  /\ trk.pc = "download"
  /\ trk' = IF u = 0
              THEN [trk EXCEPT !.pc = "create"]
              ELSE [trk EXCEPT !.urls = u, !.mPending = u, !.pc = "media_wait"]
  /\ UNCHANGED <<jobs, jmWriter, jobVars, ctxDone, supVars, workVars, crashed,
                 rd, cpc, hist, auxVars>>

\* variant: a download goroutine does not look at the context before downloading
ImageBeginUnchecked ==
  /\ ~crashed
  /\ trk.pc = "media_wait"
  /\ trk.mPending > 0
  /\ trk' = [trk EXCEPT !.mPending = @ - 1, !.mRunning = @ + 1]
  /\ UNCHANGED <<jobs, jmWriter, jobVars, ctxDone, supVars, workVars, crashed,
                 rd, cpc, hist, auxVars>>

\* a download goroutine starts: select { case <-ctx.Done(): errorsChan <- ctx.Err() }
ImageBegin ==
  /\ ~crashed
  /\ trk.pc = "media_wait"
  /\ trk.mPending > 0
  /\ trk' = IF ctxDone
              THEN [trk EXCEPT !.mPending = @ - 1, !.errors = @ + 1,
                               !.ctxErrs = @ + 1]
              ELSE [trk EXCEPT !.mPending = @ - 1, !.mRunning = @ + 1]
  /\ UNCHANGED <<jobs, jmWriter, jobVars, ctxDone, supVars, workVars, crashed,
                 rd, cpc, hist, auxVars>>

\* downloadImage returned: photosChan <- photo or errorsChan <- err
DownloadImage(ok) ==
  /\ ~crashed
  /\ trk.pc = "media_wait"
  /\ trk.mRunning > 0
  /\ trk' = IF ok
              THEN [trk EXCEPT !.mRunning = @ - 1, !.photos = @ + 1]
              ELSE [trk EXCEPT !.mRunning = @ - 1, !.errors = @ + 1]
  /\ UNCHANGED <<jobs, jmWriter, jobVars, ctxDone, supVars, workVars, crashed,
                 rd, cpc, hist, auxVars>>

\* variant: the results are collected without wg.Wait()
DownloadImagesJoinNoWait ==
  /\ ~crashed
  /\ trk.pc = "media_wait"
  /\ IF trk.errors > 0
       THEN /\ ListingResult("media")
            /\ trk' = [trk EXCEPT !.pc = "done", !.result = "media"]
       ELSE /\ trk' = [trk EXCEPT !.pc = "create"]
            /\ UNCHANGED <<wRunning, resNil, resErr, hist>>
  /\ UNCHANGED <<jobs, jmWriter, jobVars, ctxDone, supVars, wPending, crashed,
                 rd, cpc, auxVars>>

\* variant: the photos that were downloaded are used when only some downloads failed
DownloadImagesJoinPartial ==
  /\ ~crashed
  /\ trk.pc = "media_wait"
  /\ trk.mPending = 0
  /\ trk.mRunning = 0
  /\ IF trk.photos = 0
       THEN /\ ListingResult("media")
            /\ trk' = [trk EXCEPT !.pc = "done", !.result = "media"]
       ELSE /\ trk' = [trk EXCEPT !.pc = "create"]
            /\ UNCHANGED <<wRunning, resNil, resErr, hist>>
  /\ UNCHANGED <<jobs, jmWriter, jobVars, ctxDone, supVars, wPending, crashed,
                 rd, cpc, auxVars>>

\* wg.Wait() of downloadImages; if len(errors) > 0 processProperty returns the error
DownloadImagesJoin ==
  /\ ~crashed
  /\ trk.pc = "media_wait"
  /\ trk.mPending = 0
  /\ trk.mRunning = 0
  /\ IF trk.errors > 0
       THEN /\ ListingResult("media")
            /\ trk' = [trk EXCEPT !.pc = "done", !.result = "media"]
       ELSE /\ trk' = [trk EXCEPT !.pc = "create"]
            /\ UNCHANGED <<wRunning, resNil, resErr, hist>>
  /\ UNCHANGED <<jobs, jmWriter, jobVars, ctxDone, supVars, wPending, crashed,
                 rd, cpc, auxVars>>

\* variant: a failed Create is tried once more
CreateRetry(ok) ==
  /\ ~crashed
  /\ trk.pc = "create"
  /\ IF ~ok /\ trk.creates = 0
       THEN /\ trk' = [trk EXCEPT !.creates = @ + 1]
            /\ UNCHANGED <<wRunning, resNil, resErr, hist>>
       ELSE /\ ListingResult(IF ok THEN "nil" ELSE "create")
            /\ trk' = [trk EXCEPT !.creates = @ + 1, !.pc = "done",
                                  !.result = IF ok THEN "nil" ELSE "create"]
  /\ UNCHANGED <<jobs, jmWriter, jobVars, ctxDone, supVars, wPending, crashed,
                 rd, cpc, auxVars>>

\* convertToProperty, then s.propertyRepo.Create(ctx, &property) and the return
Create(ok) ==
  /\ ~crashed
  /\ trk.pc = "create"
  /\ ListingResult(IF ok THEN "nil" ELSE "create")
  /\ trk' = [trk EXCEPT !.creates = @ + 1, !.pc = "done",
                        !.result = IF ok THEN "nil" ELSE "create"]
  /\ UNCHANGED <<jobs, jmWriter, jobVars, ctxDone, supVars, wPending, crashed,
                 rd, cpc, auxVars>>

(* ---- JobManager.MarkJobCompleted ---- *)
\* under jm.mu and job.mu: LastStatus = &finalStatus, CompletedAt = now, go cleanup
MarkStore ==
  /\ LastStatus' = status
  /\ CompletedAt' = TRUE
  /\ completedAge' = 0
  /\ sleepElapsed' = 0
  /\ pc' = "done"
  /\ hist' = [hist EXCEPT !.finalSnap = status, !.markArg = status]

MarkJobCompleted ==
  /\ ~crashed
  /\ pc = "term_mark"
  /\ jmWriter = "none"
  /\ IF JobID \notin jobs
       THEN /\ pc' = "done"
            /\ hist' = [hist EXCEPT !.markArg = status]
            /\ UNCHANGED <<jmWriter, LastStatus, CompletedAt, completedAge,
                           sleepElapsed>>
       ELSE IF jobRLocks = 0
         THEN /\ MarkStore
              /\ UNCHANGED jmWriter
         ELSE /\ jmWriter' = "sup"
              /\ pc' = "term_mark_wait"
              /\ UNCHANGED <<LastStatus, CompletedAt, completedAge,
                             sleepElapsed, hist>>
  /\ UNCHANGED <<jobs, statusChan, chanClosed, jobRLocks, ctxDone, status,
                 properties, i, workVars, crashed, rd, cpc, trk, auxVars>>

\* MarkJobCompleted obtains job.mu.Lock() after waiting for the read holds
MarkJobCompletedLocked ==
  /\ ~crashed
  /\ pc = "term_mark_wait"
  /\ jobRLocks = 0
  /\ MarkStore
  /\ jmWriter' = "none"
  /\ UNCHANGED <<jobs, statusChan, chanClosed, jobRLocks, ctxDone, status,
                 properties, i, workVars, crashed, rd, cpc, trk, auxVars>>

(* ---- GetJobStatus ---- *)
\* the call returns snapshot s; via names the return statement taken
Return(r, s, v, q, t) ==
  [pc |-> "idle", status |-> NilStatus, snap |-> s, via |-> v, qHad |-> q,
   term |-> t]

\* the call returned (status, true)
Found(r) == rd[r].via \in {"cached", "queue", "default"}

\* GlobalJobManager.GetJob(jobID)
StatusGetJob(r) ==
  /\ ~crashed
  /\ rd[r].pc = "idle"
  /\ jmWriter = "none"
  /\ rd' = [rd EXCEPT ![r] =
              IF JobID \in jobs
                THEN [IdleReader EXCEPT !.pc = "have"]
                ELSE Return(r, NilStatus, "notfound", FALSE, FALSE)]
  /\ UNCHANGED <<jobs, jmWriter, jobVars, ctxDone, supVars, workVars, crashed,
                 cpc, hist, trk, auxVars>>

\* job.mu.RLock(); if job.LastStatus != nil { return job.LastStatus, true }
StatusCheckLast(r) ==
  /\ ~crashed
  /\ rd[r].pc = "have"
  /\ IF LastStatus # NilStatus
       THEN /\ rd' = [rd EXCEPT ![r] =
                        Return(r, LastStatus, "cached", statusChan # <<>>,
                               CompletedAt)]
            /\ UNCHANGED jobRLocks
       ELSE /\ rd' = [rd EXCEPT ![r].pc = "select"]
            /\ jobRLocks' = jobRLocks + 1
  /\ UNCHANGED <<jobs, jmWriter, statusChan, chanClosed, LastStatus,
                 CompletedAt, completedAge, sleepElapsed, ctxDone, supVars,
                 workVars, crashed, cpc, hist, trk, auxVars>>

\* select { case status := <-job.Status: job.mu.RUnlock() ... ; default: return basic }
StatusReceive(r) ==
  /\ ~crashed
  /\ rd[r].pc = "select"
  /\ jobRLocks' = jobRLocks - 1
  /\ IF statusChan # <<>>
       THEN /\ rd' = [rd EXCEPT ![r].pc = "store",
                                  ![r].status = Head(statusChan),
                                  ![r].qHad = TRUE]
            /\ statusChan' = Tail(statusChan)
       ELSE IF chanClosed
         THEN /\ rd' = [rd EXCEPT ![r].pc = "store",
                                    ![r].status = ZeroStatus]
              /\ UNCHANGED statusChan
         ELSE /\ rd' = [rd EXCEPT ![r] =
                          Return(r, DefaultStatus, "default", FALSE, FALSE)]
              /\ UNCHANGED statusChan
  /\ UNCHANGED <<jobs, jmWriter, chanClosed, LastStatus, CompletedAt,
                 completedAge, sleepElapsed, ctxDone, supVars, workVars,
                 crashed, cpc, hist, trk, auxVars>>

\* job.mu.Lock(); job.LastStatus = &status; job.mu.Unlock()
StatusStore(r) ==
  /\ ~crashed
  /\ rd[r].pc = "store"
  /\ jobRLocks = 0
  /\ LastStatus' = rd[r].status
  /\ rd' = [rd EXCEPT ![r].pc = "requeue"]
  /\ UNCHANGED <<jobs, jmWriter, statusChan, chanClosed, CompletedAt,
                 completedAge, sleepElapsed, jobRLocks, ctxDone, supVars,
                 workVars, crashed, cpc, hist, trk, auxVars>>

\* job.mu.RLock(); select { case job.Status <- status: ; default: }; return &status, true
\* A send on the closed channel panics; gin's recovery turns it into a failed request.
StatusRequeue(r) ==
  /\ ~crashed
  /\ rd[r].pc = "requeue"
  /\ IF chanClosed
       THEN /\ rd' = [rd EXCEPT ![r] =
                        Return(r, NilStatus, "panic", rd[r].qHad, rd[r].term)]
            /\ UNCHANGED statusChan
       ELSE /\ rd' = [rd EXCEPT ![r] =
                        Return(r, rd[r].status, "queue", rd[r].qHad,
                               rd[r].term)]
            /\ statusChan' = IF Len(statusChan) < StatusCap
                               THEN Append(statusChan, rd[r].status)
                               ELSE statusChan
  /\ UNCHANGED <<jobs, jmWriter, chanClosed, LastStatus, CompletedAt,
                 completedAge, sleepElapsed, jobRLocks, ctxDone, supVars,
                 workVars, crashed, cpc, hist, trk, auxVars>>

(* ---- JobManager.RemoveJob / CleanupJob ---- *)
\* close(job.Status); delete(jm.jobs, id)
DeleteEntry(who) ==
  /\ chanClosed' = TRUE
  /\ jobs' = jobs \ {JobID}
  /\ hist' = [hist EXCEPT !.removedBy = who, !.removedAge = completedAge,
                          !.closes = @ + 1]

(* ---- CancelJob ---- *)
\* job, exists := GlobalJobManager.GetJob(jobID); if !exists { return false }
CancelGetJob ==
  /\ ~crashed
  /\ cpc \in {"idle", "true", "false"}
  /\ jmWriter = "none"
  /\ cpc' = IF JobID \in jobs THEN "cancel" ELSE "false"
  /\ UNCHANGED <<jobs, jmWriter, jobVars, ctxDone, supVars, workVars, crashed,
                 rd, hist, trk, auxVars>>

\* the request reaches the token before the last batch has been started
BeforeLastBatch ==
  \/ pc \in {"init_send", "fetch"}
  \/ /\ pc \in {"total_send", "loop", "batch_wait", "batch_send"}
     /\ properties > 0
     /\ ~hist.lastBatchStarted

\* the request reaches the token while a batch is in processBatch and a later
\* batch remains
DuringBatch == pc = "batch_wait" /\ i + BatchSize < properties

\* job.Cancel()
CancelToken ==
  /\ ~crashed
  /\ cpc = "cancel"
  /\ ctxDone' = TRUE
  /\ cpc' = "remove"
  /\ hist' = [hist EXCEPT !.cancelEarly = @ \/ (~ctxDone /\ BeforeLastBatch),
                          !.cancelBatch = IF ~ctxDone /\ DuringBatch
                                            THEN (i \div BatchSize) + 1 ELSE @]
  /\ UNCHANGED <<jobs, jmWriter, jobVars, supVars, workVars, crashed, rd, trk,
                 auxVars>>

\* variant: CancelJob returns true without removing the job
CancelWithoutRemoveJob ==
  /\ ~crashed
  /\ cpc = "remove"
  /\ jmWriter = "none"
  /\ cpc' = "true"
  /\ UNCHANGED <<jobs, jmWriter, jobVars, ctxDone, supVars, workVars, crashed,
                 rd, hist, trk, auxVars>>

\* GlobalJobManager.RemoveJob(jobID); return true
CancelRemoveJob ==
  /\ ~crashed
  /\ cpc = "remove"
  /\ jmWriter = "none"
  /\ IF JobID \in jobs
       THEN DeleteEntry("cancel")
       ELSE UNCHANGED <<chanClosed, jobs, hist>>
  /\ cpc' = "true"
  /\ UNCHANGED <<jmWriter, statusChan, LastStatus, CompletedAt, completedAge,
                 sleepElapsed, jobRLocks, ctxDone, supVars, workVars, crashed,
                 rd, trk, auxVars>>

(* ---- retention ---- *)
\* one unit of time passes for the completion timestamp and the sleeping goroutine
Tick ==
  /\ ~crashed
  /\ completedAge # NoTime
  /\ completedAge < MaxAge
  /\ completedAge' = completedAge + 1
  /\ sleepElapsed' = IF sleepElapsed = NoTime THEN NoTime ELSE sleepElapsed + 1
  /\ UNCHANGED <<jobs, jmWriter, statusChan, chanClosed, LastStatus,
                 CompletedAt, jobRLocks, ctxDone, supVars, workVars, crashed,
                 rd, cpc, hist, trk, auxVars>>

\* time.Sleep(JobRetentionDuration) has returned
SleepOver == sleepElapsed # NoTime /\ sleepElapsed >= JobRetentionDuration

\* variant: the retention comparison is strict
ReadyForCleanupStrict == CompletedAt /\ completedAge > JobRetentionDuration

\* isCompleted && completedTime != nil && time.Since(*completedTime) >= JobRetentionDuration
ReadyForCleanup == CompletedAt /\ completedAge >= JobRetentionDuration

\* the goroutine started by MarkJobCompleted wakes up and calls jm.CleanupJob(id)
CleanupJob ==
  /\ ~crashed
  /\ SleepOver
  /\ jmWriter = "none"
  /\ sleepElapsed' = NoTime
  /\ IF JobID \in jobs /\ ReadyForCleanup
       THEN DeleteEntry("cleanup")
       ELSE UNCHANGED <<chanClosed, jobs, hist>>
  /\ UNCHANGED <<jmWriter, statusChan, LastStatus, CompletedAt, completedAge,
                 jobRLocks, ctxDone, supVars, workVars, crashed, rd, cpc, trk,
                 auxVars>>

(* ---- the JobManager methods called directly on a job made by the caller ---- *)
\* jm.AddJob(id, job) for a fresh job that no goroutine works on
AddJob ==
  /\ ~crashed
  /\ pc = "idle"
  /\ jmWriter = "none"
  /\ JobID \notin jobs
  /\ ~chanClosed
  /\ jobs' = jobs \cup {JobID}
  /\ UNCHANGED <<jmWriter, jobVars, ctxDone, supVars, workVars, crashed, rd,
                 cpc, hist, trk, auxVars>>

\* jm.MarkJobCompleted(id, finalStatus) with a terminal status st
MarkJobCompletedDirect(st) ==
  /\ ~crashed
  /\ pc = "idle"
  /\ jmWriter = "none"
  /\ JobID \in jobs
  /\ ~CompletedAt
  /\ LastStatus' = MkStatus(st, 0, 0, 0, st = "failed", "supStart", TRUE)
  /\ CompletedAt' = TRUE
  /\ completedAge' = 0
  /\ sleepElapsed' = 0
  /\ hist' = [hist EXCEPT !.finalSnap = LastStatus', !.markArg = LastStatus']
  /\ UNCHANGED <<jobs, jmWriter, statusChan, chanClosed, jobRLocks, ctxDone,
                 supVars, workVars, crashed, rd, cpc, trk, auxVars>>

\* jm.RemoveJob(id): if job, exists := jm.jobs[id]; exists { close; delete }
RemoveJob ==
  /\ ~crashed
  /\ pc = "idle"
  /\ jmWriter = "none"
  /\ IF JobID \in jobs
       THEN DeleteEntry("remove")
       ELSE UNCHANGED <<chanClosed, jobs, hist>>
  /\ UNCHANGED <<jmWriter, statusChan, LastStatus, CompletedAt, completedAge,
                 sleepElapsed, jobRLocks, ctxDone, supVars, workVars, crashed,
                 rd, cpc, trk, auxVars>>

\* variant: the cleanup does not look whether the entry still exists; closing
\* the closed channel panics
CleanupJobDirectNoLookup ==
  /\ ~crashed
  /\ pc = "idle"
  /\ jmWriter = "none"
  /\ hist.cleanupCalls < MaxCalls
  /\ IF ReadyForCleanup
       THEN IF chanClosed
              THEN /\ crashed' = TRUE
                   /\ hist' = [hist EXCEPT !.cleanupCalls = @ + 1,
                                           !.closes = @ + 1]
                   /\ UNCHANGED <<chanClosed, jobs>>
              ELSE /\ chanClosed' = TRUE
                   /\ jobs' = jobs \ {JobID}
                   /\ hist' = [hist EXCEPT !.cleanupCalls = @ + 1,
                                           !.closes = @ + 1,
                                           !.removedBy = "cleanup",
                                           !.removedAge = completedAge]
                   /\ UNCHANGED crashed
       ELSE /\ hist' = [hist EXCEPT !.cleanupCalls = @ + 1]
            /\ UNCHANGED <<chanClosed, jobs, crashed>>
  /\ UNCHANGED <<jmWriter, statusChan, LastStatus, CompletedAt, completedAge,
                 sleepElapsed, jobRLocks, ctxDone, supVars, workVars, rd, cpc,
                 trk, auxVars>>

\* jm.CleanupJob(id) called by any caller at any time
CleanupJobDirect ==
  /\ ~crashed
  /\ pc = "idle"
  /\ jmWriter = "none"
  /\ hist.cleanupCalls < MaxCalls
  /\ IF JobID \in jobs /\ ReadyForCleanup
       THEN /\ chanClosed' = TRUE
            /\ jobs' = jobs \ {JobID}
            /\ hist' = [hist EXCEPT !.cleanupCalls = @ + 1, !.closes = @ + 1,
                                    !.removedBy = "cleanup",
                                    !.removedAge = completedAge]
            /\ UNCHANGED crashed
       ELSE /\ hist' = [hist EXCEPT !.cleanupCalls = @ + 1]
            /\ UNCHANGED <<chanClosed, jobs, crashed>>
  /\ UNCHANGED <<jmWriter, statusChan, LastStatus, CompletedAt, completedAge,
                 sleepElapsed, jobRLocks, ctxDone, supVars, workVars, rd, cpc,
                 trk, auxVars>>

(* ---- several jobs in one JobManager ---- *)
\* Each ProcessingJob object is followed with its own supervisor; a batch is
\* one step, the source returns at most one listing, and a status read is one
\* step.  The clock moves in steps of JobRetentionDuration: a stamp of
\* CompletedAt is "fresh" until the next such step and "old" after it.
Objs == 1..MaxJobs
Snap(st, tot, cnt) == [state |-> st, total |-> tot, count |-> cnt]
NilSnap == Snap("nil", 0, 0)
ZeroSnap == Snap("", 0, 0)

NoJob ==
  [id |-> "", sup |-> "none", ctxDone |-> FALSE, closed |-> FALSE,
   queue |-> <<>>, last |-> NilSnap, stamp |-> "none", state |-> "", n |-> 0,
   count |-> 0, limit |-> 0]

\* a request body or query parameter: unusable, without a limit, or a limit
Given(kind, limit) == [kind |-> kind, limit |-> limit]

NoResponse ==
  [code |-> 0, id |-> "", limit |-> 0, body |-> Given("", 0),
   query |-> Given("", 0)]

NoCall == [name |-> "", id |-> "", found |-> FALSE]

InitMgr ==
  /\ registry = [x \in Ids |-> 0]
  /\ jobObj = [o \in Objs |-> NoJob]
  /\ timers = {}
  /\ exited = FALSE
  /\ op = NoCall
  /\ resp = NoResponse

InitAux == InitConv /\ InitMgr /\ InitImg /\ InitLocks

Made == {o \in Objs : jobObj[o].id # ""}
NextObj == Cardinality(Made) + 1
Expired(o) == jobObj[o].stamp = "old"
Call(name, id) == [name |-> name, id |-> id, found |-> registry[id] # 0]

MgrFrame ==
  UNCHANGED <<jobs, jmWriter, jobVars, ctxDone, supVars, workVars, crashed, rd,
              cpc, hist, trk, convVars, imgVars, lockVars>>

MAddJobKeepOlder(id) ==
  /\ ~exited /\ NextObj <= MaxJobs
  /\ jobObj' = [jobObj EXCEPT ![NextObj] = [NoJob EXCEPT !.id = id]]
  /\ registry' = [registry EXCEPT ![id] = IF @ = 0 THEN NextObj ELSE @]
  /\ op' = Call("add", id)
  /\ UNCHANGED <<timers, exited, resp>>
  /\ MgrFrame

\* JobManager.AddJob with a job made by the caller
MAddJob(id) ==
  /\ ~exited /\ NextObj <= MaxJobs
  /\ jobObj' = [jobObj EXCEPT ![NextObj] = [NoJob EXCEPT !.id = id]]
  /\ registry' = [registry EXCEPT ![id] = NextObj]
  /\ op' = Call("add", id)
  /\ UNCHANGED <<timers, exited, resp>>
  /\ MgrFrame

\* StartPropertyProcessing: the job is made, registered and its supervisor started
StartJob(id, limit) ==
  /\ jobObj' = [jobObj EXCEPT ![NextObj] =
                  [NoJob EXCEPT !.id = id, !.sup = "init_send",
                                !.state = "running", !.limit = limit]]
  /\ registry' = [registry EXCEPT ![id] = NextObj]

\* SimplyRETSService.StartPropertyProcessing called with an id of the caller
MStart(id) ==
  /\ ~exited /\ NextObj <= MaxJobs
  /\ StartJob(id, DefaultLimit)
  /\ UNCHANGED <<timers, exited, op, resp>>
  /\ MgrFrame

Limits == {-1, 0, 1, DefaultLimit, MaxLimit, MaxLimit + 1}
Bodies ==
  {Given("invalid", 0), Given("nolimit", 0)}
    \cup {Given("limit", l) : l \in Limits}
Queries ==
  {Given("none", 0), Given("bad", 0)} \cup {Given("limit", l) : l \in Limits}
UsedIds == {jobObj[o].id : o \in Made}

\* the limit the handler ends up with: the default, overwritten by the body
\* when it binds, otherwise by a query parameter that parses
RequestLimit(body, query) ==
  IF body.kind # "invalid"
    THEN IF body.kind = "limit" THEN body.limit ELSE DefaultLimit
    ELSE IF query.kind = "limit" THEN query.limit ELSE DefaultLimit

Response(code, id, limit, body, query) ==
  [code |-> code, id |-> id, limit |-> limit, body |-> body, query |-> query]

StartProcessingAllowZero(body, query) ==
  /\ ~exited
  /\ LET limit == RequestLimit(body, query) IN
       IF limit < 0 \/ limit > MaxLimit
         THEN /\ resp' = Response(400, "", limit, body, query)
              /\ UNCHANGED <<registry, jobObj>>
         ELSE /\ NextObj <= MaxJobs
              /\ \E id \in Ids \ UsedIds :
                   /\ StartJob(id, limit)
                   /\ resp' = Response(202, id, limit, body, query)
  /\ UNCHANGED <<timers, exited, op>>
  /\ MgrFrame

\* SimplyRETSHandler.StartProcessing
StartProcessing(body, query) ==
  /\ ~exited
  /\ LET limit == RequestLimit(body, query) IN
       IF limit <= 0 \/ limit > MaxLimit
         THEN /\ resp' = Response(400, "", limit, body, query)
              /\ UNCHANGED <<registry, jobObj>>
         ELSE /\ NextObj <= MaxJobs
              /\ \E id \in Ids \ UsedIds :
                   /\ StartJob(id, limit)
                   /\ resp' = Response(202, id, limit, body, query)
  /\ UNCHANGED <<timers, exited, op>>
  /\ MgrFrame

\* a step of the supervisor of object o that leaves it as `job`
SupStep(o, job) ==
  /\ jobObj' = [jobObj EXCEPT ![o] = job]
  /\ UNCHANGED <<registry, timers, exited, op, resp>>
  /\ MgrFrame

\* a send of the supervisor on a closed queue panics, and nothing recovers it
MSupPanic(o) ==
  /\ jobObj[o].closed
  /\ jobObj' = [jobObj EXCEPT ![o].sup = "panicked"]
  /\ exited' = TRUE
  /\ UNCHANGED <<registry, timers, op, resp>>
  /\ MgrFrame

Publish(job) ==
  [job EXCEPT !.queue = Append(@, Snap(job.state, job.n, job.count))]

MSendInitial(o) ==
  /\ ~exited /\ jobObj[o].sup = "init_send"
  /\ \/ MSupPanic(o)
     \/ /\ ~jobObj[o].closed
        /\ SupStep(o, [Publish(jobObj[o]) EXCEPT !.sup = "fetch"])
     \/ /\ jobObj[o].ctxDone
        /\ SupStep(o, [jobObj[o] EXCEPT !.sup = "done"])

MFetch(o) ==
  /\ ~exited /\ jobObj[o].sup = "fetch"
  /\ \/ SupStep(o, [jobObj[o] EXCEPT !.state = "failed", !.sup = "term_send"])
     \/ /\ ~jobObj[o].ctxDone
        /\ \E n \in {0, 1} :
             SupStep(o, [jobObj[o] EXCEPT !.n = n, !.sup = "total_send"])

MSendTotal(o) ==
  /\ ~exited /\ jobObj[o].sup = "total_send"
  /\ \/ MSupPanic(o)
     \/ /\ ~jobObj[o].closed
        /\ SupStep(o, [Publish(jobObj[o]) EXCEPT !.sup = "loop"])

MBatchLoop(o) ==
  /\ ~exited /\ jobObj[o].sup = "loop"
  /\ IF jobObj[o].count < jobObj[o].n
       THEN IF jobObj[o].ctxDone
              THEN SupStep(o, [jobObj[o] EXCEPT !.state = "cancelled",
                                                !.sup = "term_send"])
              ELSE SupStep(o, [jobObj[o] EXCEPT !.count = jobObj[o].n,
                                                !.sup = "batch_send"])
       ELSE SupStep(o, [jobObj[o] EXCEPT !.state = "completed",
                                         !.sup = "term_send"])

MSendBatch(o) ==
  /\ ~exited /\ jobObj[o].sup = "batch_send"
  /\ \/ MSupPanic(o)
     \/ /\ ~jobObj[o].closed
        /\ SupStep(o, [Publish(jobObj[o]) EXCEPT !.sup = "loop"])
     \/ /\ jobObj[o].ctxDone
        /\ SupStep(o, [jobObj[o] EXCEPT !.sup = "loop"])

MSendTerminal(o) ==
  /\ ~exited /\ jobObj[o].sup = "term_send"
  /\ \/ MSupPanic(o)
     \/ /\ ~jobObj[o].closed
        /\ SupStep(o, [Publish(jobObj[o]) EXCEPT !.sup = "term_mark"])

\* the supervisor's last statement, MarkJobCompleted(jobID, status): the entry
\* found under the id is stamped and a cleanup goroutine is started
MSupMark(o) ==
  /\ ~exited /\ jobObj[o].sup = "term_mark"
  /\ LET id == jobObj[o].id
         snap == Snap(jobObj[o].state, jobObj[o].n, jobObj[o].count)
         t == registry[id] IN
       IF t = 0
         THEN /\ jobObj' = [jobObj EXCEPT ![o].sup = "done"]
              /\ UNCHANGED timers
         ELSE /\ jobObj' = [jobObj EXCEPT ![t].last = snap,
                                          ![t].stamp = "fresh",
                                          ![o].sup = "done"]
              /\ timers' = timers \cup {[id |-> id, stamp |-> "fresh"]}
  /\ UNCHANGED <<registry, exited, op, resp>>
  /\ MgrFrame

MMarkJobCompletedScheduling(id, st) ==
  /\ ~exited
  /\ LET t == registry[id] IN
       IF t = 0
         THEN /\ timers' = timers \cup {[id |-> id, stamp |-> "fresh"]}
              /\ UNCHANGED jobObj
         ELSE /\ jobObj' = [jobObj EXCEPT ![t].last = Snap(st, 0, 0),
                                          ![t].stamp = "fresh"]
              /\ timers' = timers \cup {[id |-> id, stamp |-> "fresh"]}
  /\ op' = Call("mark", id)
  /\ UNCHANGED <<registry, exited, resp>>
  /\ MgrFrame

\* JobManager.MarkJobCompleted called directly
MMarkJobCompleted(id, st) ==
  /\ ~exited
  /\ LET t == registry[id] IN
       IF t = 0
         THEN UNCHANGED <<jobObj, timers>>
         ELSE /\ jobObj' = [jobObj EXCEPT ![t].last = Snap(st, 0, 0),
                                          ![t].stamp = "fresh"]
              /\ timers' = timers \cup {[id |-> id, stamp |-> "fresh"]}
  /\ op' = Call("mark", id)
  /\ UNCHANGED <<registry, exited, resp>>
  /\ MgrFrame

\* GetJobStatus: the cached snapshot, else the head of the queue, cached and
\* put back at its tail (on a closed queue the put-back panics in the request
\* goroutine, which recovers), else nothing
MGetJobStatus(id) ==
  /\ ~exited
  /\ registry[id] # 0
  /\ LET t == registry[id] IN
       /\ jobObj[t].last = NilSnap
       /\ IF jobObj[t].queue # <<>>
            THEN jobObj' = [jobObj EXCEPT ![t].last = Head(jobObj[t].queue),
                              ![t].queue = IF jobObj[t].closed THEN Tail(@)
                                           ELSE Append(Tail(@), Head(@))]
            ELSE /\ jobObj[t].closed
                 /\ jobObj' = [jobObj EXCEPT ![t].last = ZeroSnap]
  /\ UNCHANGED <<registry, timers, exited, op, resp>>
  /\ MgrFrame

\* JobManager.RemoveJob: the entry found under id is closed and deleted
RemoveEntry(id) ==
  LET t == registry[id] IN
    IF t = 0
      THEN UNCHANGED <<registry, jobObj>>
      ELSE /\ jobObj' = [jobObj EXCEPT ![t].closed = TRUE]
           /\ registry' = [registry EXCEPT ![id] = 0]

MRemoveJob(id) ==
  /\ ~exited
  /\ RemoveEntry(id)
  /\ op' = Call("remove", id)
  /\ UNCHANGED <<timers, exited, resp>>
  /\ MgrFrame

\* SimplyRETSService.CancelJob
MCancelJob(id) ==
  /\ ~exited
  /\ registry[id] # 0
  /\ LET t == registry[id] IN
       /\ jobObj' = [jobObj EXCEPT ![t].ctxDone = TRUE, ![t].closed = TRUE]
       /\ registry' = [registry EXCEPT ![id] = 0]
  /\ UNCHANGED <<timers, exited, op, resp>>
  /\ MgrFrame

\* JobManager.CleanupJob: only an entry whose stamp is old enough goes
CleanupEntry(id) ==
  LET t == registry[id] IN
    IF t # 0 /\ Expired(t)
      THEN /\ jobObj' = [jobObj EXCEPT ![t].closed = TRUE]
           /\ registry' = [registry EXCEPT ![id] = 0]
      ELSE UNCHANGED <<registry, jobObj>>

\* JobManager.CleanupJob called directly
MCleanupJob(id) ==
  /\ ~exited
  /\ CleanupEntry(id)
  /\ op' = Call("cleanup", id)
  /\ UNCHANGED <<timers, exited, resp>>
  /\ MgrFrame

\* the cleanup goroutine tm wakes up after its sleep and calls CleanupJob
TimerFires(tm) ==
  /\ tm.stamp = "old"
  /\ CleanupEntry(tm.id)
  /\ timers' = timers \ {tm}
  /\ UNCHANGED <<exited, op, resp>>
  /\ MgrFrame

\* variant: the woken goroutine removes whatever is registered under its id
MTimerFiresUnchecked ==
  /\ ~exited
  /\ \E tm \in timers :
       /\ tm.stamp = "old"
       /\ LET t == registry[tm.id] IN
            IF t # 0
              THEN /\ jobObj' = [jobObj EXCEPT ![t].closed = TRUE]
                   /\ registry' = [registry EXCEPT ![tm.id] = 0]
              ELSE UNCHANGED <<registry, jobObj>>
       /\ timers' = timers \ {tm}
  /\ UNCHANGED <<exited, op, resp>>
  /\ MgrFrame

MTimerFires ==
  /\ ~exited
  /\ \E tm \in timers : TimerFires(tm)

Older(st) == IF st = "fresh" THEN "old" ELSE st

\* JobRetentionDuration goes by
MTimePasses ==
  /\ ~exited
  /\ \/ \E o \in Objs : jobObj[o].stamp = "fresh"
     \/ \E tm \in timers : tm.stamp = "fresh"
  /\ jobObj' = [o \in Objs |-> [jobObj[o] EXCEPT !.stamp = Older(@)]]
  /\ timers' = {[id |-> tm.id, stamp |-> "old"] : tm \in timers}
  /\ UNCHANGED <<registry, exited, op, resp>>
  /\ MgrFrame

Supervisor(o) ==
  \/ MSendInitial(o)
  \/ MFetch(o)
  \/ MSendTotal(o)
  \/ MBatchLoop(o)
  \/ MSendBatch(o)
  \/ MSendTerminal(o)
  \/ MSupMark(o)

(* ---- the system ---- *)
Init == InitJob /\ trk = NoListing /\ InitAux

FetchProperties == FetchErr \/ \E n \in ListingCounts : FetchOk(n)

ProcessProperty == \E ok \in BOOLEAN : WorkerFinish(ok)

GetJobStatus(callers) ==
  \E r \in callers :
    \/ StatusGetJob(r)
    \/ StatusCheckLast(r)
    \/ StatusReceive(r)
    \/ StatusStore(r)
    \/ StatusRequeue(r)

CancelJob == CancelGetJob \/ CancelToken \/ CancelRemoveJob

Next ==
  \/ StartPropertyProcessing
  \/ SendInitial
  \/ FetchProperties
  \/ SendTotal
  \/ BatchLoop
  \/ WorkerBegin
  \/ ProcessProperty
  \/ BatchJoin
  \/ SendBatch
  \/ SendTerminal
  \/ MarkJobCompleted
  \/ MarkJobCompletedLocked
  \/ GetJobStatus({"r1"})
  \/ CancelJob
  \/ Tick
  \/ CleanupJob

Spec == Init /\ [][Next]_vars

(* ---- two concurrent status readers, the source returning at most one listing ---- *)
NextReaders ==
  \/ StartPropertyProcessing
  \/ SendInitial
  \/ FetchErr
  \/ \E n \in {0, 1} : FetchOk(n)
  \/ SendTotal
  \/ BatchLoop
  \/ WorkerBegin
  \/ ProcessProperty
  \/ BatchJoin
  \/ SendBatch
  \/ SendTerminal
  \/ MarkJobCompleted
  \/ MarkJobCompletedLocked
  \/ GetJobStatus(Readers)
  \/ CancelJob
  \/ Tick
  \/ CleanupJob

SpecReaders == Init /\ [][NextReaders]_vars

(* ---- a source returning about BulkListings listings, nobody reading or cancelling ---- *)
NextBulk ==
  \/ StartPropertyProcessing
  \/ SendInitial
  \/ \E n \in BulkCounts : FetchOk(n)
  \/ SendTotal
  \/ BatchLoop
  \/ WorkerBegin
  \/ WorkerFinish(TRUE)
  \/ BatchJoin
  \/ SendBatch
  \/ SendTerminal
  \/ MarkJobCompleted
  \/ Tick
  \/ CleanupJob

SpecBulk == Init /\ [][NextBulk]_vars

\* the Go scheduler runs every goroutine that can take a step, every call
\* that was issued returns, and time passes
FairBulk ==
  /\ WF_vars(StartPropertyProcessing)
  /\ WF_vars(SendInitial)
  /\ WF_vars(\E n \in BulkCounts : FetchOk(n))
  /\ WF_vars(SendTotal)
  /\ WF_vars(BatchLoop)
  /\ WF_vars(WorkerBegin)
  /\ WF_vars(WorkerFinish(TRUE))
  /\ WF_vars(BatchJoin)
  /\ WF_vars(SendBatch)
  /\ WF_vars(SendTerminal)
  /\ WF_vars(MarkJobCompleted)
  /\ WF_vars(Tick)
  /\ WF_vars(CleanupJob)

SpecBulkFair == SpecBulk /\ FairBulk

(* ---- one listing followed through its media downloads and its Create ---- *)
InitMedia == InitJob /\ InitAux /\ \E t \in FollowedListings : trk = Listing(t)

ProcessFollowed ==
  \/ ListingBegin
  \/ \E u \in 0..MaxUrls : DownloadImages(u)
  \/ ImageBegin
  \/ \E ok \in BOOLEAN : DownloadImage(ok)
  \/ DownloadImagesJoin
  \/ \E ok \in BOOLEAN : Create(ok)

NextMedia ==
  \/ StartPropertyProcessing
  \/ SendInitial
  \/ FetchProperties
  \/ SendTotal
  \/ BatchLoop
  \/ WorkerBegin
  \/ ProcessProperty
  \/ ProcessFollowed
  \/ BatchJoin
  \/ SendBatch
  \/ SendTerminal
  \/ MarkJobCompleted
  \/ CancelJob

SpecMedia == InitMedia /\ [][NextMedia]_vars

(* ---- RemoveJob and CleanupJob racing on one registered job ---- *)
NextRegistry ==
  \/ AddJob
  \/ \E st \in Terminal : MarkJobCompletedDirect(st)
  \/ RemoveJob
  \/ CleanupJobDirect
  \/ CleanupJob
  \/ Tick

SpecRegistry == Init /\ [][NextRegistry]_vars

(* ---- a job started with a cancelled parent context, read by two callers ---- *)
NextParentCtx ==
  \/ StartWithCancelledParent
  \/ SendInitial
  \/ FetchErr
  \/ SendTerminal
  \/ MarkJobCompleted
  \/ GetJobStatus(Readers)
  \/ Tick
  \/ CleanupJob

SpecParentCtx == Init /\ [][NextParentCtx]_vars

(* ---- convertToProperty over a range of external listings ---- *)
InitConvert ==
  /\ InitJob /\ trk = NoListing /\ InitMgr /\ InitImg /\ InitLocks
  /\ converted = NoProperty
  /\ \E rem \in Strings, lid \in Strings, mls \in Strings, typ \in Strings,
        lot \in Strings, bed \in Ints, bath \in SmallInts, area \in Ints,
        year \in SmallInts :
       prop = SimplyRETSProperty(rem, lid, mls, typ, bed, bath, area, lot, year)

NextConvert == Convert

SpecConvert == InitConvert /\ [][NextConvert]_vars

(* ---- start requests arriving at the handler, each supervisor up to its fetch ---- *)
NextHandler ==
  \/ \E body \in Bodies, query \in Queries : StartProcessing(body, query)
  \/ \E o \in Objs : MSendInitial(o)
  \/ \E o \in Objs : MFetch(o)

SpecHandler == Init /\ [][NextHandler]_vars

(* ---- one call of downloadImages ---- *)
NextImages ==
  \/ \E id \in ListingIDs, n \in 0..MaxImages : DownloadImagesCall(id, n)
  \/ \E k \in ImageIndexes, ok \in BOOLEAN, ctype \in ContentTypes :
       ImageResponse(k, ok, ctype)
  \/ \E k \in ImageIndexes, ok \in BOOLEAN : ImageCreate(k, ok)
  \/ \E k \in ImageIndexes, ok \in BOOLEAN : ImageCopy(k, ok)
  \/ ImagesJoin

SpecImages == Init /\ [][NextImages]_vars

(* ---- concurrent calls on the two locks ---- *)
NextLocks ==
  \/ \E g \in Procs, o \in Ops : LkCall(g, o)
  \/ \E g \in Procs : LkStep(g)

SpecLocks == Init /\ [][NextLocks]_vars

\* the scheduler does not leave every goroutine that can run waiting for ever
FairLocks == WF_vars(\E g \in Procs : LkStep(g))
SpecLocksFair == SpecLocks /\ FairLocks

(* ---- the JobManager methods called directly, on jobs made by the caller ---- *)
NextJobManager ==
  \/ \E id \in Ids : MAddJob(id)
  \/ \E id \in Ids, st \in Terminal : MMarkJobCompleted(id, st)
  \/ \E id \in Ids : MRemoveJob(id)
  \/ \E id \in Ids : MCleanupJob(id)
  \/ MTimerFires
  \/ MTimePasses

SpecJobManager == Init /\ [][NextJobManager]_vars

(* ---- several jobs of the service running side by side ---- *)
NextManager ==
  \/ \E id \in Ids : MStart(id)
  \/ \E o \in Objs : Supervisor(o)
  \/ \E id \in Ids : MGetJobStatus(id)
  \/ \E id \in Ids : MCancelJob(id)
  \/ MTimerFires
  \/ MTimePasses

SpecManager == Init /\ [][NextManager]_vars

(***************************************************************************)
(* Properties                                                              *)
(***************************************************************************)
Last(q) == q[Len(q)]

SupStopped == pc \in {"done", "panicked"}

\* every ProcessingStatus value held anywhere: queued, cached, local or returned
Snapshots ==
  {statusChan[k] : k \in 1..Len(statusChan)}
    \cup {LastStatus, status, hist.finalSnap}
    \cup {rd[r].status : r \in Readers} \cup {rd[r].snap : r \in Readers}

\* C1: the states of the published snapshots start at running, stay running
\* until at most one terminal snapshot, which is the last one published; from
\* then on the supervisor keeps that state and is past its last publish.
C1_PublishedStates ==
  LET p == hist.published IN
    /\ \A k \in 1..Len(p) : p[k] \in {"running"} \cup Terminal
    /\ \A k \in 1..(Len(p) - 1) : p[k] = "running"
    /\ (p # <<>> => p[1] = "running")
    /\ (p # <<>> /\ Last(p) \in Terminal) =>
         /\ status.state = Last(p)
         /\ pc \in {"term_mark", "term_mark_wait", "done"}

C1_Witness ==
  /\ pc = "done"
  /\ Len(hist.published) >= 4
  /\ Last(hist.published) \in Terminal

\* C2: a cancellation that reaches the token before the last batch has
\* started makes the supervisor stop in state cancelled.
C2_EarlyCancelEndsCancelled ==
  (SupStopped /\ hist.cancelEarly) => status.state = "cancelled"

\* C3: once a batch-head check has found the token cancelled, no worker of
\* that batch or a later one exists: the listings handed to workers are those
\* before the check's index and no worker is pending or running.
C3_NoWorkerAfterCancelSeen ==
  hist.cancelSeenAt # -1 =>
    /\ hist.spawned <= hist.cancelSeenAt
    /\ wPending = 0
    /\ wRunning = 0
    /\ pc \in {"term_send", "term_mark", "term_mark_wait", "done", "panicked"}

C3_Witness ==
  /\ hist.cancelSeenAt = BatchSize
  /\ properties > BatchSize
  /\ SupStopped

\* C4: every snapshot has processed + failed <= total, and until the fetch
\* has succeeded total, processed and failed are 0 in all of them.
C4_CountersWithinTotal ==
  \A s \in Snapshots :
    /\ s.processed + s.failed <= s.total
    /\ properties = -1 => (s.total = 0 /\ s.processed = 0 /\ s.failed = 0)

C4_Witness ==
  \E k \in 1..Len(statusChan) :
    /\ statusChan[k].total = MaxListings
    /\ statusChan[k].processed + statusChan[k].failed = BatchSize
    /\ statusChan[k].failed > 0

\* C5: a snapshot in state completed has processed + failed = total.
C5_CompletedCountsAll ==
  \A s \in Snapshots :
    s.state = "completed" => s.processed + s.failed = s.total

C5_Witness ==
  /\ LastStatus.state = "completed"
  /\ LastStatus.total = MaxListings
  /\ LastStatus.failed > 0
  /\ LastStatus.processed > 0

\* C6: once MarkJobCompleted has stored the terminal snapshot, the cached
\* snapshot of the registered job stays that snapshot and every read that
\* looks at the cache afterwards returns it.
C6_TerminalSnapshotSticks ==
  /\ (CompletedAt /\ JobID \in jobs) => LastStatus = hist.finalSnap
  /\ \A r \in Readers :
       (rd[r].pc = "idle" /\ Found(r) /\ rd[r].term) =>
         rd[r].snap = hist.finalSnap

\* C7 as stated: a job marked completed is registered throughout the
\* retention window.
C7_RegisteredThroughWindow ==
  (CompletedAt /\ completedAge < JobRetentionDuration) => JobID \in jobs

\* C7 as amended: a marked job leaves the registry only through CancelJob or
\* through the cleanup, the cleanup never before the retention duration has
\* passed since completion; once the cleanup goroutine has run the job is
\* gone; a CancelJob that returned true has left the job unregistered.
C7_RetentionUnlessCancelled ==
  /\ (CompletedAt /\ JobID \notin jobs) =>
       \/ hist.removedBy = "cancel"
       \/ /\ hist.removedBy = "cleanup"
          /\ hist.removedAge >= JobRetentionDuration
  /\ (CompletedAt /\ sleepElapsed = NoTime) => JobID \notin jobs
  /\ hist.removedBy = "cleanup" => hist.removedAge >= JobRetentionDuration
  /\ cpc = "true" => JobID \notin jobs

C7_Witness ==
  /\ hist.removedBy = "cleanup"
  /\ JobID \notin jobs
  /\ LastStatus.state = "completed"

\* C8: a read that found the job returns a snapshot; while nothing has been
\* published and the channel is open that snapshot is the basic one (running,
\* zero counters, the job's start time); a read that did not find the job
\* returns none.
C8_SnapshotNeverAbsent ==
  \A r \in Readers :
    rd[r].pc = "idle" =>
      /\ Found(r) => rd[r].snap # NilStatus
      /\ rd[r].via = "notfound" => rd[r].snap = NilStatus
      /\ rd[r].via = "default" =>
           /\ rd[r].snap.state = "running"
           /\ rd[r].snap.total = 0
           /\ rd[r].snap.processed = 0
           /\ rd[r].snap.failed = 0
           /\ rd[r].snap.startedAt = "jobStart"
      /\ (Found(r) /\ hist.published = <<>> /\ ~chanClosed) =>
           rd[r].via = "default"

C8_Witness ==
  /\ rd["r1"].pc = "idle"
  /\ rd["r1"].via = "default"
  /\ rd["r2"].pc = "idle"
  /\ rd["r2"].via = "notfound"
  /\ JobID \in jobs

\* C9: a read of a job that is not terminal never returns the cached
\* last-known snapshot while the channel holds a snapshot.
C9_ReadConsumesWhenQueued ==
  \A r \in Readers :
    (rd[r].pc = "idle" /\ rd[r].via = "cached" /\ ~rd[r].term) => ~rd[r].qHad

\* C10: the supervisor is never at a publish step that cannot proceed.
PublishBlocked ==
  /\ ~SendReady
  /\ \/ pc \in {"total_send", "term_send"}
     \/ pc \in {"init_send", "batch_send"} /\ ~ctxDone

C10_PublishNeverBlocks == ~PublishBlocked

\* C11: the supervisor goroutine never dies of a runtime panic: whenever it
\* is at a publish step the status channel is open, and it has not panicked.
C11_SupervisorNeverPanics ==
  /\ pc # "panicked"
  /\ pc \in {"init_send", "total_send", "batch_send", "term_send"} =>
       ~chanClosed

\* C12: RemoveJob and any number of CleanupJob calls on one id close the
\* status channel and delete the entry at most once and none of them panics;
\* once the entry is gone no call changes the registry, the channel or the
\* job's fields.
C12_RemoveCleanupOnce ==
  /\ [](/\ hist.closes <= 1
        /\ ~crashed
        /\ (hist.closes = 1) = chanClosed
        /\ chanClosed => JobID \notin jobs)
  /\ [][chanClosed =>
          /\ jobs' = jobs
          /\ chanClosed' = chanClosed
          /\ crashed' = crashed
          /\ hist'.closes = hist.closes
          /\ LastStatus' = LastStatus
          /\ CompletedAt' = CompletedAt]_vars

\* a direct cleanup call has run after RemoveJob took the entry of a job
\* whose retention had passed, and the timer cleanup has run as well
C12_Witness ==
  /\ hist.removedBy = "remove"
  /\ hist.removedAge >= JobRetentionDuration
  /\ hist.cleanupCalls >= 2
  /\ sleepElapsed = NoTime
  /\ CompletedAt
  /\ JobID \notin jobs

\* C13: when the fetch has failed and the supervisor has stopped, its
\* snapshot is failed with total, processed and failed 0 and an error message,
\* MarkJobCompleted was called with it, and no worker was ever spawned.
C13_FetchErrorEndsFailed ==
  (status.err /\ SupStopped) =>
    /\ status.state = "failed"
    /\ status.total = 0
    /\ status.processed = 0
    /\ status.failed = 0
    /\ hist.markArg = status
    /\ hist.spawned = 0
    /\ wPending = 0
    /\ wRunning = 0

\* C14: after a successful fetch no snapshot of the job is in state failed,
\* and a supervisor that has stopped without the job ever being cancelled has
\* handed every listing to a worker, counted each of them and is completed.
C14_ListingFailuresNeverAbort ==
  /\ properties # -1 => \A s \in Snapshots : s.state # "failed"
  /\ (properties # -1 /\ SupStopped /\ ~ctxDone) =>
       /\ pc = "done"
       /\ status.state = "completed"
       /\ hist.spawned = properties
       /\ status.processed + status.failed = properties
       /\ hist.markArg = status

\* every listing of a two-batch job failed and the job is completed
C14_Witness ==
  /\ pc = "done"
  /\ ~ctxDone
  /\ properties = MaxListings
  /\ status.failed = MaxListings
  /\ status.state = "completed"

\* C15: a listing with at least one URL and at least one failed download is
\* never passed to Create and its worker returns the media error; when it is
\* the job's only listing the job ends with failed = 1 and processed = 0
\* however many downloads failed, and in any job processed stays below the
\* number of listings handed to workers.
C15_FailedMediaDropsListing ==
  /\ (trk.urls >= 1 /\ trk.errors >= 1) =>
       /\ trk.creates = 0
       /\ trk.pc \in {"media_wait", "done"}
       /\ trk.result \in {"none", "media"}
  /\ trk.result = "media" =>
       /\ trk.errors >= 1
       /\ status.processed + resNil < hist.spawned
       /\ (properties = 1 /\ pc # "batch_wait") =>
            (status.failed = 1 /\ status.processed = 0)

\* three URLs, one download failed, the single-listing job is over
C15_Witness ==
  /\ properties = 1
  /\ trk.urls = MaxUrls
  /\ trk.errors = 1
  /\ trk.photos = MaxUrls - 1
  /\ trk.creates = 0
  /\ pc = "done"
  /\ status.state = "completed"
  /\ status.failed = 1

\* C16: workers, their results and download goroutines exist only while the
\* supervisor waits in processBatch; the workers of that batch are the only
\* ones, all listings before index i are counted, and no published snapshot
\* counts a listing of the batch still being waited for.
C16_BatchJoinBarrier ==
  /\ pc # "batch_wait" =>
       /\ wPending = 0
       /\ wRunning = 0
       /\ resNil = 0
       /\ resErr = 0
       /\ trk.pc \in {"none", "done"}
  /\ trk.pc # "media_wait" => (trk.mPending = 0 /\ trk.mRunning = 0)
  /\ pc = "batch_wait" =>
       /\ wPending + wRunning + resNil + resErr = hist.spawned - i
       /\ status.processed + status.failed = i
       /\ \A k \in 1..Len(statusChan) :
            statusChan[k].processed + statusChan[k].failed <= i
  /\ pc = "batch_send" => status.processed + status.failed = hist.spawned

\* the second batch is waited for, a download of its listing is in flight and
\* the snapshot of the first batch is published
C16_Witness ==
  /\ pc = "batch_wait"
  /\ i = BatchSize
  /\ trk.mRunning > 0
  /\ Len(statusChan) = 3
  /\ statusChan[3].processed + statusChan[3].failed = BatchSize

\* C17: when the token is cancelled while batch k is in processBatch and a
\* later batch remains, the supervisor stops in state cancelled with
\* processed + failed between BatchSize*(k-1) and BatchSize*k and no listing
\* beyond batch k handed to a worker.
C17_MidBatchCancelEndsCancelled ==
  (SupStopped /\ hist.cancelBatch > 0) =>
    /\ status.state = "cancelled"
    /\ status.processed + status.failed >= BatchSize * (hist.cancelBatch - 1)
    /\ status.processed + status.failed <= BatchSize * hist.cancelBatch
    /\ hist.spawned <= BatchSize * hist.cancelBatch

\* C18: a CancelJob that found the job cancels the token, removes the job and
\* returns true, so after it returned true the token is cancelled and the id
\* is not registered; a CancelJob that did not find the job returns false at
\* once and leaves the registry, the job and the token as they were.
C18_CancelJobResult ==
  /\ [](/\ cpc = "true" => (ctxDone /\ JobID \notin jobs)
        /\ cpc = "remove" => ctxDone)
  /\ [][/\ (cpc \in {"idle", "true", "false"} /\ cpc' # cpc) =>
             IF JobID \in jobs
               THEN cpc' = "cancel" /\ jobs' = jobs
               ELSE /\ cpc' = "false"
                    /\ UNCHANGED <<jobs, jmWriter, jobVars, ctxDone>>
        /\ (cpc = "cancel" /\ cpc' # cpc) => (cpc' = "remove" /\ ctxDone')
        /\ (cpc = "remove" /\ cpc' # cpc) =>
             (cpc' = "true" /\ JobID \notin jobs')]_vars

\* CancelJob returned true while workers of the job were running
C18_Witness ==
  /\ cpc = "true"
  /\ pc = "batch_wait"
  /\ wRunning > 0
  /\ ctxDone
  /\ JobID \notin jobs

\* C19: from the return of StartPropertyProcessing the job is registered
\* until something removes it; the first snapshot published is running with
\* total, processed and failed 0; and the fetch is not issued before a
\* snapshot has been published.
C19_StartRegistersPublishesFirst ==
  /\ (pc # "idle" /\ hist.removedBy = "none") => JobID \in jobs
  /\ (hist.published = <<>>) = (hist.firstPub = NilStatus)
  /\ hist.firstPub # NilStatus =>
       /\ hist.firstPub.state = "running"
       /\ hist.firstPub.total = 0
       /\ hist.firstPub.processed = 0
       /\ hist.firstPub.failed = 0
       /\ ~hist.firstPub.err
  /\ (pc \in {"fetch", "total_send", "loop", "batch_wait", "batch_send"}
        \/ properties # -1 \/ status.err) =>
       (hist.published # <<>> /\ hist.published[1] = "running")

\* the initial snapshot is out, the fetch is about to be issued and a status
\* call has found the job
C19_Witness ==
  /\ pc = "fetch"
  /\ Len(hist.published) = 1
  /\ JobID \in jobs
  /\ rd["r1"].pc = "idle"
  /\ Found("r1")

\* C20: Create is called at most once for a listing and only when all its
\* downloads have ended without an error; whenever no batch is being waited
\* for, processed is the number of Create calls that returned nil and failed
\* is the number of workers that ended in an error.
C20_CreateOncePerListing ==
  /\ trk.creates <= 1
  /\ trk.creates = 1 =>
       /\ trk.errors = 0
       /\ trk.mPending = 0
       /\ trk.mRunning = 0
       /\ trk.photos = trk.urls
       /\ trk.pc = "done"
  /\ trk.result \in {"nil", "create"} => trk.creates = 1
  /\ trk.result \in {"media", "ctx"} => trk.creates = 0
  /\ status.processed + resNil = hist.okCreates
  /\ status.failed + resErr = hist.workerErrs
  /\ pc # "batch_wait" =>
       /\ status.processed = hist.okCreates
       /\ status.failed = hist.workerErrs

\* the last listing of a two-batch job had all its downloads succeed and its
\* Create fail; the job is over with both counters positive
C20_Witness ==
  /\ pc = "done"
  /\ properties = MaxListings
  /\ trk.idx = MaxListings
  /\ trk.urls = MaxUrls
  /\ trk.photos = MaxUrls
  /\ trk.result = "create"
  /\ trk.creates = 1
  /\ status.failed >= 2
  /\ status.processed >= 1

\* C21: the supervisor sets its state to completed only in a step taken
\* while the job's token is not cancelled.
C21_CompletedOnlyIfNotCancelled ==
  [][(status.state # "completed" /\ status'.state = "completed") =>
       ~ctxDone]_vars

\* C26: a worker that begins after the token was cancelled downloads
\* nothing, calls no Create and reports an error; a download goroutine that
\* begins after it reports an error without downloading, so the listing fails
\* without a Create; once the token is cancelled no worker and no download
\* enters its work; and a worker or download that is in its work ends only by
\* delivering its own result.
C26_NoNewWorkAfterCancel ==
  /\ [](/\ trk.result = "ctx" =>
             /\ trk.urls = 0
             /\ trk.photos = 0
             /\ trk.errors = 0
             /\ trk.creates = 0
             /\ hist.workerErrs >= 1
        /\ trk.ctxErrs >= 1 =>
             /\ ctxDone
             /\ trk.errors >= trk.ctxErrs
             /\ trk.creates = 0
             /\ trk.result \in {"none", "media"}
             /\ trk.photos + trk.mRunning <= trk.urls - trk.ctxErrs)
  /\ [][/\ ctxDone => (wRunning' <= wRunning /\ trk'.mRunning <= trk.mRunning)
        /\ trk'.mRunning < trk.mRunning =>
             /\ trk'.photos + trk'.errors = trk.photos + trk.errors + 1
             /\ trk'.ctxErrs = trk.ctxErrs
        /\ wRunning' < wRunning =>
             resNil' + resErr' = resNil + resErr + 1]_vars

\* the token is cancelled, one download of the listing is still in flight and
\* another download goroutine has refused to start
C26_Witness ==
  /\ ctxDone
  /\ trk.mRunning >= 1
  /\ trk.ctxErrs >= 1
  /\ pc = "batch_wait"

\* C27: before any worker exists a running snapshot with total = N and zero
\* counters is in the channel; batch k starts at index BatchSize*(k-1) and has
\* BatchSize listings, the last one the rest; a listing gets at most one
\* worker, and in a completed job there are ceil(N/BatchSize) batches, N
\* workers and exactly one finished worker for the followed listing.
C27_BatchesPartitionListings ==
  LET b == hist.batches
      N == properties
  IN
    /\ (hist.spawned > 0 \/ pc \in {"loop", "batch_wait", "batch_send"}) =>
         \E k \in 1..Len(statusChan) :
           /\ statusChan[k].total = N
           /\ statusChan[k].state = "running"
           /\ statusChan[k].processed = 0
           /\ statusChan[k].failed = 0
    /\ \A k \in 1..Len(b) :
         /\ b[k][1] = BatchSize * (k - 1)
         /\ b[k][2] = Min(BatchSize, N - b[k][1])
         /\ b[k][2] >= 1
         /\ k < Len(b) => b[k][2] = BatchSize
    /\ trk.starts <= 1
    /\ status.state = "completed" =>
         /\ Len(b) = (N + BatchSize - 1) \div BatchSize
         /\ hist.spawned = N
         /\ trk.idx <= N => (trk.starts = 1 /\ trk.pc = "done")

\* a completed job of two batches, the second holding the one remaining
\* listing, which is the followed one
C27_Witness ==
  /\ status.state = "completed"
  /\ properties = MaxListings
  /\ Len(hist.batches) = 2
  /\ hist.batches[2] = <<BatchSize, MaxListings - BatchSize>>
  /\ trk.idx = MaxListings
  /\ trk.starts = 1

\* downloadImages has returned to processProperty
DownloadImagesReturned ==
  \/ trk.pc = "create"
  \/ trk.pc = "done" /\ trk.result # "ctx"

\* C28: when downloadImages has returned no download goroutine of the call
\* is pending or running; with no URL it returned no photo and no error;
\* otherwise photos plus failed downloads is the number of URLs, and the error
\* is returned exactly when a download failed, the photos staying in the
\* returned list.
C28_DownloadImagesAggregates ==
  DownloadImagesReturned =>
    /\ trk.mPending = 0
    /\ trk.mRunning = 0
    /\ trk.photos + trk.errors = trk.urls
    /\ trk.urls = 0 => trk.result # "media"
    /\ trk.pc = "done" => ((trk.result = "media") = (trk.errors > 0))
    /\ trk.pc = "create" => trk.errors = 0

\* one of the downloads succeeded, all others failed, and the call returned
C28_Witness ==
  /\ trk.pc = "done"
  /\ trk.result = "media"
  /\ trk.urls = MaxUrls
  /\ trk.photos = 1
  /\ trk.errors = MaxUrls - 1

\* C25: under fair scheduling a started job's supervisor eventually stops,
\* the job then being marked with a terminal snapshot or no longer registered.
C25_SupervisorEventuallyStops ==
  (pc # "idle") ~>
    /\ SupStopped
    /\ \/ JobID \notin jobs
       \/ CompletedAt /\ LastStatus.state \in Terminal

\* an optional text field made from the external text ext
TextFieldKept(ext, field) ==
  /\ field.Valid <=> ext # ""
  /\ field.Valid => field.String = ext /\ field.String # ""

\* an optional number field made from the external number ext
NumberFieldKept(ext, field) ==
  /\ field.Valid <=> ~IsZero(ext)
  /\ field.Valid => FitsInt32(ext) /\ field.Int32 = Int32Of(ext)
  /\ field.Valid => field.Int32 # 0

\* C29: once the converter has returned, each optional field (description,
\* external id, MLS number, type, bedrooms, bathrooms, area, lot size, year
\* built) is present exactly when the external value is non-empty / non-zero,
\* a present field holds the external value itself, and no present field
\* holds the empty string or zero.
C29_OptionalFieldsNormalised ==
  converted.made =>
    /\ TextFieldKept(prop.Remarks, converted.Description)
    /\ TextFieldKept(prop.ListingID, converted.ExternalID)
    /\ TextFieldKept(prop.MLSNumber, converted.MLSNumber)
    /\ TextFieldKept(prop.PropertyType, converted.PropertyType)
    /\ TextFieldKept(prop.LotSize, converted.LotSize)
    /\ NumberFieldKept(prop.Bedrooms, converted.Bedrooms)
    /\ NumberFieldKept(prop.Bathrooms, converted.Bathrooms)
    /\ NumberFieldKept(prop.Area, converted.SquareFeet)
    /\ NumberFieldKept(prop.YearBuilt, converted.YearBuilt)

\* a step that is an operation applied to the job with id x: its start, a
\* status read, its cancel, a step of one of its supervisors (markCompleted
\* included) or the cleanup scheduled for it
OpOn(x) ==
  \/ MStart(x)
  \/ MGetJobStatus(x)
  \/ MCancelJob(x)
  \/ \E o \in Objs : jobObj[o].id = x /\ Supervisor(o)
  \/ ~exited /\ \E tm \in timers : tm.id = x /\ TimerFires(tm)

\* the step leaves the registry entry of id y and every job object made for y
\* (token, queue, cached snapshot, counters, supervisor position) as they were
Untouched(y) ==
  /\ registry'[y] = registry[y]
  /\ \A o \in Objs : jobObj[o].id = y => jobObj'[o] = jobObj[o]

\* some supervisor of the job with id y has not returned yet
Supervised(y) ==
  \E o \in Objs :
    jobObj[o].id = y /\ jobObj[o].sup \notin {"none", "done", "panicked"}

\* C22: an operation applied to job A (start, status, cancel, a supervisor
\* step with its markCompleted, cleanup) leaves every job B with another id as
\* it was: registry entry, token, queue, cached snapshot and counters are
\* unchanged, and B's supervisor is not ended by the step.
C22_JobsIndependent ==
  [][\A x \in Ids : OpOn(x) =>
       \A y \in Ids \ {x} :
         /\ Untouched(y)
         /\ (Supervised(y) /\ ~exited) => ~exited']_vars

\* JobManager.GetJob
GetJob(id) == registry[id]

\* C23: RemoveJob(id) and MarkJobCompleted(id, snapshot) called with an id
\* that has no entry do not fail and change nothing: the map, every job and
\* the set of scheduled cleanups stay as they were.
C23_UnregisteredIsNoOp ==
  [][\A id \in Ids :
       (/\ GetJob(id) = 0
        /\ MRemoveJob(id) \/ \E st \in Terminal : MMarkJobCompleted(id, st))
         => UNCHANGED <<registry, jobObj, timers, exited>>]_vars

\* the last direct call was a MarkJobCompleted on an id without entry, while
\* the other id has a job, and no cleanup is scheduled
C23_Witness ==
  /\ op.name = "mark" /\ ~op.found
  /\ \E y \in Ids \ {op.id} : GetJob(y) # 0
  /\ timers = {}
  /\ ~exited

\* C24: AddJob(id, job) always succeeds and GetJob(id) then yields the job
\* just added, also when id had an entry: no job made earlier is touched (the
\* replaced one keeps its queue open), the other ids keep their entries, and
\* nothing fails.
C24_AddJobOverwrites ==
  [][\A id \in Ids :
       MAddJob(id) =>
         /\ GetJob(id)' = NextObj /\ jobObj'[NextObj].id = id
         /\ \A y \in Ids \ {id} : GetJob(y)' = GetJob(y)
         /\ \A o \in Made : jobObj'[o] = jobObj[o]
         /\ ~exited']_vars

\* the second job was added under the id of the first, whose queue is open
C24_Witness ==
  /\ op.name = "add" /\ op.found
  /\ GetJob(op.id) = 2
  /\ jobObj[1].id = op.id /\ ~jobObj[1].closed
  /\ ~exited

\* what C30 asks of a step of the handler given this body and query
StartRequestHandled(body, query) ==
  LET rejected == resp'.code = 400
      accepted == resp'.code = 202
      new == NextObj
      bad(l) == l <= 0 \/ l > MaxLimit
  IN
    /\ rejected \/ accepted
    /\ rejected => UNCHANGED <<registry, jobObj>>
    /\ accepted =>
         /\ resp'.id \in Ids \ UsedIds
         /\ registry'[resp'.id] = new
         /\ jobObj'[new].id = resp'.id /\ jobObj'[new].sup = "init_send"
         /\ jobObj'[new].limit >= 1 /\ jobObj'[new].limit <= MaxLimit
         /\ \A o \in Made : jobObj'[o] = jobObj[o]
    /\ (body.kind = "limit" /\ bad(body.limit)) => rejected
    /\ (body.kind = "invalid" /\ query.kind = "limit" /\ bad(query.limit))
         => rejected
    /\ (body.kind \in {"invalid", "nolimit"} /\ query.kind \in {"none", "bad"})
         => accepted /\ jobObj'[new].limit = DefaultLimit

\* C30: a start request whose limit is <= 0 or > 500 is answered with an
\* error, registers no job and starts no supervisor; a request without a limit
\* is run with 50; an accepted request has a limit in 1..500 and a job id that
\* no earlier job had, under which the new job is registered with its
\* supervisor started.
C30_StartRequestValidated ==
  [][StartProcessing(resp'.body, resp'.query)
       => StartRequestHandled(resp'.body, resp'.query)]_vars

\* a request with limit 0 was just rejected while an earlier request without
\* a limit runs with the default
C30_Witness ==
  /\ resp.code = 400 /\ resp.body = Given("limit", 0)
  /\ \E o \in Objs :
       /\ jobObj[o].limit = DefaultLimit /\ jobObj[o].sup # "none"
       /\ GetJob(jobObj[o].id) = o

\* C32: a CancelJob call that finds the job registered after MarkJobCompleted
\* has recorded its terminal state returns false at once, so that the job
\* stays registered with its final snapshot.
C32_CancelOfTerminalJobFails ==
  [][(CancelGetJob /\ JobID \in jobs /\ CompletedAt
        /\ LastStatus.state \in Terminal)
       => cpc' = "false"]_vars

\* C33: a GetJobStatus call never ends in a runtime failure, and the snapshot
\* it holds, caches or returns is never the zero value received from the
\* closed queue, which the supervisor did not publish.
C33_ReadSurvivesClose ==
  \A r \in Readers :
    /\ rd[r].via # "panic"
    /\ rd[r].status # ZeroStatus
    /\ rd[r].snap # ZeroStatus
    /\ LastStatus # ZeroStatus

\* C34: once the supervisor has stopped, the job is no longer registered or
\* MarkJobCompleted has stored a terminal snapshot and the completion time for
\* it; also when the context was cancelled before the initial snapshot.
C34_StoppedMeansMarkedOrGone ==
  SupStopped =>
    \/ JobID \notin jobs
    \/ CompletedAt /\ hist.markArg.state \in Terminal

\* the step is the return of a snapshot by the GetJobStatus call of reader r
ReturnsAt(r) == rd[r].pc # "idle" /\ rd'[r].pc = "idle" /\ Found(r)'

\* snapshot b, returned after snapshot a, does not fall behind it
Monotone(a, b) ==
  /\ a.processed + a.failed <= b.processed + b.failed
  /\ a.total # 0 => b.total = a.total
  /\ a.state \in Terminal => b.state # "running"

\* C35: a snapshot returned by a GetJobStatus call does not fall behind the
\* snapshot that another caller's last call returned before: processed +
\* failed is not smaller, a non-zero total is the same, and running does not
\* follow a terminal state.
C35_ReadsAreMonotonic ==
  [][\A r \in Readers : \A q \in Readers \ {r} :
       (ReturnsAt(r) /\ rd[q].pc = "idle" /\ Found(q))
         => Monotone(rd[q].snap, rd'[r].snap)]_vars

\* C36: while a batch runs, its workers not yet finished and the results
\* delivered add up to the size of the batch (one result per worker); once
\* the batch at index i is joined, processed + failed is the number of
\* listings up to the end of that batch; and the counters change only in a
\* step of the supervisor taken while no worker is pending or running.
C36_CountersAfterJoin ==
  /\ [](/\ pc = "batch_wait" =>
             wPending + wRunning + resNil + resErr
               = Min(BatchSize, properties - i)
        /\ pc = "batch_send" =>
             status.processed + status.failed = Min(i + BatchSize, properties)
        /\ (pc = "loop" /\ ~crashed) =>
             status.processed + status.failed = Min(i, properties))
  /\ [][(status'.processed # status.processed
           \/ status'.failed # status.failed)
          => (pc = "batch_wait" /\ pc' = "batch_send"
                /\ wPending = 0 /\ wRunning = 0)]_vars

\* the second, short batch has been joined with a failed listing in it
C36_Witness ==
  /\ pc = "batch_send"
  /\ i = BatchSize
  /\ status.processed + status.failed = MaxListings
  /\ status.failed > 0
  /\ status.processed > 0

\* C37: a step of CleanupJob(id), called directly or by a woken cleanup
\* goroutine, takes the job registered under id out of the registry only if
\* that job has a completion time at least JobRetentionDuration old and a
\* terminal snapshot; a job without a completion time, or with a younger
\* one, stays registered whichever mark or job the goroutine was started for.
C37_CleanupOnlyExpired ==
  [][\A id \in Ids :
       ((MCleanupJob(id) \/ MTimerFires)
          /\ registry[id] # 0 /\ registry'[id] # registry[id])
         => /\ registry'[id] = 0
            /\ Expired(registry[id])
            /\ jobObj[registry[id]].last.state \in Terminal]_vars

\* the goroutine started for the first job under "a" has fired and gone,
\* and the second job under "a", marked since, is still registered
C37_Witness ==
  /\ jobObj[1].id = "a" /\ jobObj[1].stamp = "old" /\ ~jobObj[1].closed
  /\ registry["a"] = 2
  /\ jobObj[2].stamp = "fresh" /\ ~jobObj[2].closed
  /\ timers = {[id |-> "a", stamp |-> "fresh"]}

\* C31: a successful download of task k of a downloadImages call for listing
\* id has its file in the images directory under the name id, "_", k in
\* decimal and an extension, which is .png exactly when the Content-Type
\* contains "png" and .jpg otherwise; the path returned is "/images/"
\* followed by that name; and no two tasks of the call that have made their
\* file name have the same one.
C31_ImageFileNames ==
  /\ \A k \in ImageIndexes :
       img.task[k].pc = "done" =>
         /\ \E ext \in {DotPng, DotJpg} :
              /\ img.task[k].file = img.id \o <<"_">> \o Itoa(k) \o ext
              /\ ext = DotPng <=> Contains(img.task[k].ctype, Png)
         /\ img.task[k].file \in img.disk
         /\ img.task[k].path = ImagesPrefix \o img.task[k].file
  /\ \A k \in ImageIndexes : \A j \in ImageIndexes \ {k} :
       (img.task[k].pc \in {"create", "copy", "done"}
          /\ img.task[j].pc \in {"create", "copy", "done"})
         => img.task[k].file # img.task[j].file

\* three downloads of one call have succeeded, with both extensions, while
\* two of them were writing at the same time
C31_Witness ==
  /\ img.n = MaxImages
  /\ img.task[0].pc = "done" /\ img.task[0].file = <<"p", "7", "_", "0", ".", "j", "p", "g">>
  /\ img.task[1].pc = "copy" /\ img.task[2].pc = "copy"
  /\ img.task[2].file = <<"p", "7", "_", "2", ".", "p", "n", "g">>
  /\ img.task[0].path = ImagesPrefix \o img.task[0].file

\* C38: a call that holds the job's lock never asks for the registry lock
\* (the order is always registry lock, then job lock); in no state is there
\* a set of waiting calls each kept waiting only by calls of the set; and
\* every call that has been made returns.
C38_NoDeadlock ==
  /\ [](/\ \A g \in Procs :
             (jobMu.w = g \/ g \in jobMu.readers)
               => calls[g].pc \notin {"jmLock", "jmLockWait", "jmRLock"}
        /\ \A S \in (SUBSET Procs) \ {{}} :
             ~ \A g \in S : Waiting(g) /\ Blockers(g) # {} /\ Blockers(g) \subseteq S)
  /\ \A g \in Procs : (calls[g].pc # "idle") ~> (calls[g].pc = "idle")

\* MarkJobCompleted holds the registry lock and waits for the job's lock,
\* which a GetJobStatus holds for reading, while a third call waits for the
\* registry lock
C38_Witness ==
  /\ calls["g1"] = [op |-> "MarkJobCompleted", pc |-> "jobLockWait"]
  /\ jmMu.w = "g1" /\ jmMu.held /\ jobMu.w = "g1"
  /\ calls["g2"].op = "GetJobStatus" /\ "g2" \in jobMu.readers
  /\ calls["g3"] = [op |-> "CancelJob", pc |-> "jmRLock"]

====
